---- MODULE Spec2Model ----
(***************************************************************************)
(* Attachment lifecycle of the warranty detail page (src/detail.js):       *)
(* fetchWithRetry, the upload batch of uploadToDropbox with its final      *)
(* merge and write-back, and the record store field it reads and writes.   *)
(***************************************************************************)
EXTENDS Integers, Sequences, FiniteSets, TLC

VARIABLES
    \* ---- one call of fetchWithRetry ----
    fwPc,        \* position inside fetchWithRetry
    maxRetries,  \* the maxRetries argument
    attempt,     \* let attempt
    delay,       \* let delay
    requests,    \* number of fetch() calls issued by this call
    answers,     \* statuses the endpoint has answered, in order
    waits,       \* delays that have been waited, in order
    rejects,     \* number of fetch() calls that rejected
    response,    \* the status of the response handed to the caller (0: none)
    \* ---- the record store and one upload batch ----
    stored,              \* the attachment list of targetField held by the record store
    storedAtStart,       \* the stored list when the batch started
    dropboxAccessToken,  \* let dropboxAccessToken (0: not set)
    upPc,                \* position inside the change handler / uploadToDropbox
    warrantyId,          \* what getWarrantyId() returns
    files,               \* event.target.files: the names of the chosen files
    idx,                 \* the loop index of uploadToDropbox (1-based)
    fileState,           \* per file: pending, started, ok, failed
    existingImages,      \* const existingImages
    uploadedUrls,        \* const uploadedUrls (the accumulator)
    latestFromAirtable,  \* const latestFromAirtable
    combinedList,        \* const combinedList
    inFlight,            \* blob-store requests issued and not yet answered
    refreshes,           \* token refreshes done by uploadFileToDropbox in this batch
    toasts,              \* showToast calls, in order
    patches,             \* PATCH requests handed to fetchWithRetry by the batch
    patchBody,           \* the list sent by the PATCH
    readsDone,           \* completed calls of fetchCurrentImagesFromAirtable
    uploadInProgress,    \* let uploadInProgress
    writeOutcome,        \* how updateAirtableRecord ended
    \* ---- upload batches of the two upload inputs, side by side ----
    batchPc,             \* per upload input: position of its handler / uploadToDropbox
    batchLeft,           \* per upload input: files of its batch not yet attempted
    \* ---- the token broker and one file's upload ----
    rec,                 \* the shared credential record of the record store
    issued,              \* the last access token the authorization server handed out
    dropboxAppKey,       \* page globals set by fetchDropboxToken
    dropboxAppSecret,
    dropboxRefreshToken,
    tkPc,                \* the await the running call is suspended at
    tkStack,             \* the calls waiting for the running one, innermost last
    tkCall,              \* the outermost call: "none", "fetch" or "upload"
    tkResult,            \* what the outermost call returned (Pending while it runs)
    tkToken,             \* token argument of the running uploadFileToDropbox
    tkCreds,             \* creds argument of the running uploadFileToDropbox
    refArgs,             \* arguments of the running refreshDropboxAccessToken
    fRead,               \* how the last read of fetchDropboxToken ended
    viaRefresh,          \* the last fetchDropboxToken went on to the exchange
    wb,                  \* the write-back of the last exchange
    expiries,            \* expired-token answers in the outermost upload call
    tkUploads,           \* upload requests issued in the outermost upload call
    \* ---- one read or write of the record store ----
    stRecs,              \* the records the store's filter matches, in its order
    stOp,                \* the call followed: "none", "read" or "write"
    stKey,               \* its key argument
    stPc,                \* the await it is suspended at
    stRequests,          \* the requests it has issued, in order
    stAnswer,            \* the last answer it was given
    stResolved,          \* what getRecordIdByWarrantyId returned
    stResult,            \* what fetchCurrentImagesFromAirtable returned
    stToasts,            \* the notifications it has emitted
    \* ---- deletion of attachments ----
    dlStored,            \* per attachment field: the ids of the attachments the store holds
    currentCarouselFiles,   \* ids of the files the carousel shows
    currentCarouselIndex,   \* 0-based
    currentCarouselField,   \* the field the carousel was opened on
    carouselOpen,        \* the overlay is displayed
    dlPath,              \* the deletion followed: "none", "carousel" or "bulk"
    dlPc,                \* the await it is suspended at
    dlField,             \* the field it is working on
    dlIds,               \* the ids it was asked to remove
    dlWrites,            \* its calls of updateAirtableRecord, in order
    dlToasts,            \* the notifications it has emitted
    dlStart,             \* what the store held when the followed deletion began
    dlPrevIds,           \* the ids the deletion before it was asked to remove
    \* ---- the attachment viewer ----
    currentWarrantyId,   \* the record key the carousel was opened with
    globalSwipeEnabled,  \* page-level swipe navigation is on
    bodyOverflow,        \* document.body.style.overflow
    displayed,           \* the file rendered in #carousel-body (0: none yet)
    navLog,              \* the last calls of nextImage / prevImage that moved the index
    leftPage,            \* window.location.href = 'index.html' was executed
    \* ---- two tabs uploading to one field ----
    rcStored,            \* the list the store holds in the field
    rcPc,                \* per tab: the await its uploadToDropbox is suspended at
    rcUploaded,          \* per tab: its uploadedUrls
    rcBody,              \* per tab: the combinedList it sends
    rcToasts,            \* per tab: the notifications it has emitted
    rcLog,               \* the re-reads and writes answered so far, in order
    \* ---- the shared link of one uploaded file ----
    lkPc,                \* the await uploadFileToDropbox is suspended at
    lkCreate,            \* the status create_shared_link_with_settings answered (0: none)
    lkListed,            \* list_shared_links was requested
    lkListOk,            \* and answered with a 2xx status
    lkLinks,             \* the links it listed
    lkResult,            \* what uploadFileToDropbox returned
    lkAcc,               \* uploadedUrls of the batch
    \* ---- the re-read after a write ----
    rrHandler,           \* the handler followed: none, save, upload, carousel or bulk
    rrPc,                \* the await the handler is suspended at
    rrBg,                \* reads the refresh that is not awaited has still to issue
    rrTimer,             \* its setTimeout: none, armed or fired
    rrTm,                \* reads the refresh started by the timer has still to issue
    rrLog,               \* the writes answered, timers fired and re-reads issued, in order
    \* ---- the touch gesture in the viewer ----
    swStart,             \* startX, startY of addCarouselSwipeHandlers
    swMoved,             \* touchMoved
    swFingers,           \* the fingers on the viewer
    swRel,               \* diffX, diffY where the last finger was lifted
    swNav,               \* what the last touchend called
    \* ---- the resolution of the store key ----
    rsChain,             \* the handler whose chain of calls is followed
    rsKey,               \* what getWarrantyId() gave the handler
    rsPc,                \* the place in the chain of the call that runs
    rsPhase,             \* where that call is
    rsId,                \* recordId of that call
    rsLog,               \* the lookups and requests of the chain
    \* ---- the upload of one file through fetchWithRetry ----
    ulPc,                \* where the upload of one file is
    ulAttempt,           \* attempt of uploadFileToDropbox
    ulExpiries,          \* the expired-token answers the file has had
    ulTotal,             \* upload requests of the calls of uploadFileToDropbox that have ended
    ulTaken,             \* the 429 branch of uploadFileToDropbox has been taken
    \* ---- the fields of an attachment write ----
    pfVendor,            \* the value of the vendor dropdown
    pfPc,                \* where the attachment write is
    pfKey,               \* the key the caller passes
    pfTarget,            \* the attachment field the caller writes
    pfBody,              \* the entries of the fields in the body of the PATCH
    pfStored             \* the Material Vendor link the record holds

fwVars == <<fwPc, maxRetries, attempt, delay, requests, answers, waits, rejects, response>>

upVars == <<stored, storedAtStart, dropboxAccessToken, upPc, warrantyId, files, idx,
            fileState, existingImages, uploadedUrls, latestFromAirtable, combinedList,
            inFlight, refreshes, toasts, patches, patchBody, readsDone,
            uploadInProgress, writeOutcome>>

gdVars == <<batchPc, batchLeft>>

tkVars == <<rec, issued, dropboxAppKey, dropboxAppSecret, dropboxRefreshToken, tkPc,
            tkStack, tkCall, tkResult, tkToken, tkCreds, refArgs, fRead, viaRefresh,
            wb, expiries, tkUploads>>

stVars == <<stRecs, stOp, stKey, stPc, stRequests, stAnswer, stResolved, stResult,
            stToasts>>

dlVars == <<dlStored, currentCarouselFiles, currentCarouselIndex, currentCarouselField,
            carouselOpen, dlPath, dlPc, dlField, dlIds, dlWrites, dlToasts, dlStart,
            dlPrevIds>>
crVars == <<currentWarrantyId, globalSwipeEnabled, bodyOverflow, displayed, navLog,
            leftPage>>
rcVars == <<rcStored, rcPc, rcUploaded, rcBody, rcToasts, rcLog>>
lkVars == <<lkPc, lkCreate, lkListed, lkListOk, lkLinks, lkResult, lkAcc>>

rrVars == <<rrHandler, rrPc, rrBg, rrTimer, rrTm, rrLog>>

swVars == <<swStart, swMoved, swFingers, swRel, swNav>>

rsVars == <<rsChain, rsKey, rsPc, rsPhase, rsId, rsLog>>

ulVars == <<ulPc, ulAttempt, ulExpiries, ulTotal, ulTaken>>

pfVars == <<pfVendor, pfPc, pfKey, pfTarget, pfBody, pfStored>>

vars == <<fwVars, upVars, gdVars, tkVars, stVars, dlVars, crVars, rcVars, lkVars, rrVars, swVars, rsVars, ulVars, pfVars>>

\* what an action of one part leaves alone: the variables of the other parts
nonUpVars == <<fwVars, gdVars, tkVars, stVars, dlVars, crVars, rcVars, lkVars, rrVars, swVars, rsVars, ulVars, pfVars>>
nonFwVars == <<upVars, gdVars, tkVars, stVars, dlVars, crVars, rcVars, lkVars, rrVars, swVars, rsVars, ulVars, pfVars>>
nonGdVars == <<fwVars, tkVars, stVars, dlVars, crVars, rcVars, lkVars, rrVars, swVars, rsVars, ulVars, pfVars>>

(***************************************************************************)
(* fetchWithRetry (src/detail.js:138-154)                                  *)
(***************************************************************************)
DefaultMaxRetries == 5
BaseDelay == 500
RateLimitStatus == 429

\* statuses an endpoint may answer: success, hard errors and the rate limit
Statuses == {200, 401, 404, 409, 429, 500}

\* values the maxRetries argument takes (the default is DefaultMaxRetries)
RetryArgs == 1..DefaultMaxRetries

IsRateLimitedAnyError(status) == status >= 400
IsRateLimitedNever(status) == FALSE
\* if (response.status !== 429) return response;
IsRateLimited(status) == status = RateLimitStatus

LoopGuardOffByOne(a, m) == a <= m
\* while (attempt < maxRetries)
LoopGuard(a, m) == a < m

NextDelayLinear(d) == d + BaseDelay
\* delay *= 2
NextDelay(d) == d * 2

AfterRejectRetried == "sleep"
\* fetch() is awaited outside any try block: a rejection leaves the function
AfterReject == "rejected"

\* no upload batch is being followed
UpIdle ==
    /\ stored = <<>>
    /\ storedAtStart = <<>>
    /\ dropboxAccessToken = 0
    /\ upPc = "none"
    /\ warrantyId = <<>>
    /\ files = <<>>
    /\ idx = 0
    /\ fileState = <<>>
    /\ existingImages = <<>>
    /\ uploadedUrls = <<>>
    /\ latestFromAirtable = <<>>
    /\ combinedList = <<>>
    /\ inFlight = {}
    /\ refreshes = 0
    /\ toasts = <<>>
    /\ patches = 0
    /\ patchBody = <<>>
    /\ readsDone = 0
    /\ uploadInProgress = FALSE
    /\ writeOutcome = "none"

\* the two upload inputs of the page
Inputs == {"upload-issue-picture", "upload-completed-picture"}

\* the two inputs are not being followed
GdIdle ==
    /\ batchPc = [b \in Inputs |-> "none"]
    /\ batchLeft = [b \in Inputs |-> 0]

\* a call that has not returned yet
Pending == 0 - 1
\* creds = {} : every field undefined
NoCreds == [refreshToken |-> 0, appKey |-> 0, appSecret |-> 0]
\* no credential record in the table
NoRecord == [exists |-> FALSE, appKey |-> 0, appSecret |-> 0, token |-> 0, refresh |-> 0]

\* the token broker is not being followed
TkIdle ==
    /\ rec = NoRecord
    /\ issued = 0
    /\ dropboxAppKey = 0 /\ dropboxAppSecret = 0 /\ dropboxRefreshToken = 0
    /\ tkPc = "none"
    /\ tkStack = <<>>
    /\ tkCall = "none"
    /\ tkResult = Pending
    /\ tkToken = 0
    /\ tkCreds = NoCreds
    /\ refArgs = NoCreds
    /\ fRead = "none"
    /\ viaRefresh = FALSE
    /\ wb = "none"
    /\ expiries = 0
    /\ tkUploads = 0

\* no answer yet
NoAnswer == [kind |-> "none", status |-> 0, body |-> "none"]
\* fetchCurrentImagesFromAirtable has not returned
NoResult == [threw |-> FALSE, val |-> <<>>]

\* no read or write of the record store is being followed
StIdle ==
    /\ stRecs = <<>>
    /\ stOp = "none"
    /\ stKey = <<>>
    /\ stPc = "none"
    /\ stRequests = <<>>
    /\ stAnswer = NoAnswer
    /\ stResolved = <<>>
    /\ stResult = NoResult
    /\ stToasts = <<>>

\* the two attachment fields of a record
Fields == {"Picture(s) of Issue", "Completed  Pictures"}

\* no deletion is being followed
DlIdle ==
    /\ dlStored = [f \in Fields |-> <<>>]
    /\ currentCarouselFiles = <<>>
    /\ currentCarouselIndex = 0
    /\ currentCarouselField = "none"
    /\ carouselOpen = FALSE
    /\ dlPath = "none"
    /\ dlPc = "none"
    /\ dlField = "none"
    /\ dlIds = {}
    /\ dlWrites = <<>>
    /\ dlToasts = <<>>
    /\ dlStart = [f \in Fields |-> <<>>]
    /\ dlPrevIds = {}

\* the viewer is not being followed
CrIdle ==
    /\ currentWarrantyId = <<>>
    /\ globalSwipeEnabled = TRUE
    /\ bodyOverflow = "auto"
    /\ displayed = 0
    /\ navLog = <<>>
    /\ leftPage = FALSE

\* no pair of tabs is being followed
RcIdle ==
    /\ rcStored = <<>>
    /\ rcPc = <<>>
    /\ rcUploaded = <<>>
    /\ rcBody = <<>>
    /\ rcToasts = <<>>
    /\ rcLog = <<>>

\* no shared link is being followed
LkIdle ==
    /\ lkPc = "none"
    /\ lkCreate = 0
    /\ lkListed = FALSE
    /\ lkListOk = FALSE
    /\ lkLinks = <<>>
    /\ lkResult = <<>>
    /\ lkAcc = <<>>

RrIdle ==
    /\ rrHandler = "none"
    /\ rrPc = "none"
    /\ rrBg = 0
    /\ rrTimer = "none"
    /\ rrTm = 0
    /\ rrLog = <<>>

SwIdle ==
    /\ swStart = <<0, 0>>
    /\ swMoved = FALSE
    /\ swFingers = 0
    /\ swRel = <<0, 0>>
    /\ swNav = "none"

RsIdle ==
    /\ rsChain = "none"
    /\ rsKey = <<>>
    /\ rsPc = 0
    /\ rsPhase = "none"
    /\ rsId = <<>>
    /\ rsLog = <<>>

UlIdle ==
    /\ ulPc = "none"
    /\ ulAttempt = 0
    /\ ulExpiries = 0
    /\ ulTotal = 0
    /\ ulTaken = FALSE

PfIdle ==
    /\ pfVendor = <<>>
    /\ pfPc = "none"
    /\ pfKey = <<>>
    /\ pfTarget = "none"
    /\ pfBody = {}
    /\ pfStored = <<>>

\* no call of fetchWithRetry is being followed
FwIdle ==
    /\ fwPc = "none"
    /\ maxRetries = DefaultMaxRetries
    /\ attempt = 0
    /\ delay = BaseDelay
    /\ requests = 0
    /\ answers = <<>>
    /\ waits = <<>>
    /\ rejects = 0
    /\ response = 0

FwInit ==
    /\ PfIdle
    /\ UlIdle
    /\ RsIdle
    /\ SwIdle
    /\ RrIdle
    /\ UpIdle
    /\ GdIdle
    /\ TkIdle
    /\ StIdle
    /\ DlIdle
    /\ CrIdle
    /\ RcIdle
    /\ LkIdle
    /\ fwPc = "loop"
    /\ maxRetries \in RetryArgs
    /\ attempt = 0
    /\ delay = BaseDelay
    /\ requests = 0
    /\ answers = <<>>
    /\ waits = <<>>
    /\ rejects = 0
    /\ response = 0

\* const response = await fetch(url, options)   (the request is issued)
FwFetch ==
    /\ fwPc = "loop"
    /\ LoopGuard(attempt, maxRetries)
    /\ requests' = requests + 1
    /\ fwPc' = "fetching"
    /\ UNCHANGED <<maxRetries, attempt, delay, answers, waits, rejects, response>>
    /\ UNCHANGED nonFwVars

\* the endpoint answers; a status other than 429 is returned at once
FwRespond ==
    /\ fwPc = "fetching"
    /\ \E status \in Statuses :
          /\ answers' = Append(answers, status)
          /\ IF IsRateLimited(status)
                THEN /\ fwPc' = "sleep"
                     /\ response' = response
                ELSE /\ fwPc' = "returned"
                     /\ response' = status
    /\ UNCHANGED <<maxRetries, attempt, delay, requests, waits, rejects>>
    /\ UNCHANGED nonFwVars

\* the underlying fetch rejects (transport-level failure)
FwReject ==
    /\ fwPc = "fetching"
    /\ rejects' = rejects + 1
    /\ fwPc' = AfterReject
    /\ UNCHANGED <<maxRetries, attempt, delay, requests, answers, waits, response>>
    /\ UNCHANGED nonFwVars

\* await new Promise(res => setTimeout(res, delay)); delay *= 2; attempt++
FwWake ==
    /\ fwPc = "sleep"
    /\ waits' = Append(waits, delay)
    /\ delay' = NextDelay(delay)
    /\ attempt' = attempt + 1
    /\ fwPc' = "loop"
    /\ UNCHANGED <<maxRetries, requests, answers, rejects, response>>
    /\ UNCHANGED nonFwVars

\* throw new Error(`Max retries reached for ${url}`)
FwThrow ==
    /\ fwPc = "loop"
    /\ ~LoopGuard(attempt, maxRetries)
    /\ fwPc' = "thrown"
    /\ UNCHANGED <<maxRetries, attempt, delay, requests, answers, waits, rejects, response>>
    /\ UNCHANGED nonFwVars

NextRetry == FwFetch \/ FwRespond \/ FwReject \/ FwWake \/ FwThrow

SpecRetry == FwInit /\ [][NextRetry]_vars

(***************************************************************************)
(* The record store's attachment field and the data of an upload batch     *)
(***************************************************************************)
MaxStored == 2
MaxUrl == 2
MaxFiles == 2
MaxRefresh == 1

\* an uploadedFile is { url, filename }: it carries no id
NoId == 0
\* the one token value the credential exchange hands out
Token == 1

Urls == 1..MaxUrl
StoredIds == 1..MaxStored

\* persisted attachments: the store has given each an id
StoredAtts == [id : StoredIds, url : Urls, filename : {0}]

DistinctIds(l) == \A i, j \in 1..Len(l) : l[i].id = l[j].id => i = j

\* ids are only ever compared for equality, so the lists are taken up to a
\* renaming of the ids: in the order of their ids
IdOrdered(l) == \A i, j \in 1..Len(l) : i < j => l[i].id < l[j].id

\* the lists the store may hold when the page is opened
StoredLists ==
    UNION {{l \in [1..n -> StoredAtts] : DistinctIds(l) /\ IdOrdered(l)}
              : n \in 0..MaxStored}

\* the business key shown in the warranty-id input
BizKey == <<"W", "R", "-", "1">>
\* getWarrantyId() returns null when neither the input nor currentWarrantyId is set
NoKey == <<>>

\* resolvedRecordId.startsWith("rec")
StartsWithRec(k) == Len(k) >= 3 /\ SubSeq(k, 1, 3) = <<"r", "e", "c">>

\* what a call of fetchWithRetry hands its caller: a response whose status is
\* not 429, or an exception (retries exhausted, or a rejected fetch)
FetchOutcomes ==
    {[kind |-> "response", status |-> st] : st \in {x \in Statuses : ~IsRateLimited(x)}}
        \cup {[kind |-> "throw", status |-> 0]}

\* response.ok
Ok(o) == o.kind = "response" /\ o.status >= 200 /\ o.status <= 299

\* fetchCurrentImagesFromAirtable: [] on a failed read, else the field's list
ReadResult(o, list) == IF Ok(o) THEN list ELSE <<>>

HasUrl(list, u) == \E i \in 1..Len(list) : list[i].url = u

MergeConcat(combined, news) == combined \o news

RECURSIVE MergeNewWins(_, _)
MergeNewWins(combined, news) ==
    IF news = <<>> THEN combined
    ELSE MergeNewWins(
            SelectSeq(combined, LAMBDA f : f.url # Head(news).url) \o <<Head(news)>>,
            Tail(news))

\* for (const newFile of uploadedUrls)
\*   if (!combinedList.some(f => f.url === newFile.url)) combinedList.push(newFile)
RECURSIVE Merge(_, _)
Merge(combined, news) ==
    IF news = <<>> THEN combined
    ELSE Merge(IF HasUrl(combined, Head(news).url)
                  THEN combined
                  ELSE Append(combined, Head(news)),
               Tail(news))

LoopDoneSkipsLast(i, n) == i >= n
\* for (let index = 0; index < files.length; index++): the loop is left
LoopDone(i, n) == i > n

PcAfterUploadIssuedNoAwait == "advance"
\* const dropboxUrl = await uploadFileToDropbox(...): the loop waits for it
PcAfterUploadIssued == "uploading"

(***************************************************************************)
(* The upload change handler, uploadToDropbox and what it calls            *)
(***************************************************************************)
Req(i, what) == [file |-> i, req |-> what]

TokenMissingIgnored(t) == FALSE
\* ensureDropboxToken: if (!dropboxAccessToken) { alert(...); return false; }
TokenMissing(t) == t = 0

\* the tail of uploadToDropbox once updateAirtableRecord has returned, and the
\* toast of the change handler that follows it
Finish(outcome, writeToasts) ==
    /\ writeOutcome' = outcome
    /\ toasts' = toasts \o writeToasts \o <<"all_uploaded", "photo_uploaded">>
    /\ uploadInProgress' = FALSE
    /\ upPc' = "done"

\* showToast("Uploading ..."), then uploadToDropbox up to its first await
BeginUpload(tok) ==
    IF tok = 0
        THEN /\ toasts' = toasts \o <<"uploading", "photo_uploaded">>
             /\ upPc' = "done"
             /\ UNCHANGED <<uploadInProgress, storedAtStart>>
        ELSE /\ toasts' = Append(toasts, "uploading")
             /\ uploadInProgress' = TRUE
             /\ storedAtStart' = stored
             /\ upPc' = "read1"

\* the loop of uploadToDropbox turns to file i, or is left for the re-read
EnterLoop(i) ==
    IF LoopDone(i, Len(files))
        THEN /\ upPc' = "read2"
             /\ fileState' = fileState
        ELSE /\ upPc' = "compress"
             /\ fileState' = [fileState EXCEPT ![i] = "started"]

\* uploadFileToDropbox returned null for the current file
FileFailed ==
    /\ fileState' = [fileState EXCEPT ![idx] = "failed"]
    /\ upPc' = "advance"
    /\ UNCHANGED uploadedUrls

\* uploadFileToDropbox returned a link: uploadedUrls.push({url, filename})
FileUploaded(u) ==
    /\ fileState' = [fileState EXCEPT ![idx] = "ok"]
    /\ uploadedUrls' =
          Append(uploadedUrls, [id |-> NoId, url |-> u, filename |-> files[idx]])
    /\ upPc' = "display"

UpInit ==
    /\ PfIdle
    /\ UlIdle
    /\ RsIdle
    /\ SwIdle
    /\ RrIdle
    /\ FwIdle
    /\ GdIdle
    /\ TkIdle
    /\ StIdle
    /\ DlIdle
    /\ CrIdle
    /\ RcIdle
    /\ LkIdle
    /\ stored \in StoredLists
    /\ storedAtStart = <<>>
    /\ dropboxAccessToken \in {0, Token}
    /\ upPc = "idle"
    /\ warrantyId \in {NoKey, BizKey}
    /\ files = <<>>
    /\ idx = 0
    /\ fileState = <<>>
    /\ existingImages = <<>>
    /\ uploadedUrls = <<>>
    /\ latestFromAirtable = <<>>
    /\ combinedList = <<>>
    /\ inFlight = {}
    /\ refreshes = 0
    /\ toasts = <<>>
    /\ patches = 0
    /\ patchBody = <<>>
    /\ readsDone = 0
    /\ uploadInProgress = FALSE
    /\ writeOutcome = "none"

\* the change handler of an upload input: files chosen, ensureDropboxToken
UploadChange ==
    /\ upPc = "idle"
    /\ \E n \in 1..MaxFiles :
          /\ files' = [i \in 1..n |-> i]
          /\ fileState' = [i \in 1..n |-> "pending"]
    /\ IF dropboxAccessToken = 0
          THEN /\ upPc' = "ensure"
               /\ UNCHANGED <<toasts, uploadInProgress, storedAtStart>>
          ELSE BeginUpload(dropboxAccessToken)
    /\ UNCHANGED <<stored, dropboxAccessToken, warrantyId, idx, existingImages,
                   uploadedUrls, latestFromAirtable, combinedList, inFlight, refreshes,
                   patches, patchBody, readsDone, writeOutcome>>
    /\ UNCHANGED nonUpVars

\* ensureDropboxToken: dropboxAccessToken = await fetchDropboxToken()
EnsureTokenDone ==
    /\ upPc = "ensure"
    /\ \E t \in {0, Token} :
          /\ dropboxAccessToken' = t
          /\ IF TokenMissing(t)
                THEN /\ toasts' = Append(toasts, "auth_failed")
                     /\ upPc' = "done"
                     /\ UNCHANGED <<uploadInProgress, storedAtStart>>
                ELSE BeginUpload(t)
    /\ UNCHANGED <<stored, warrantyId, files, idx, fileState, existingImages,
                   uploadedUrls, latestFromAirtable, combinedList, inFlight, refreshes,
                   patches, patchBody, readsDone, writeOutcome>>
    /\ UNCHANGED nonUpVars

\* const existingImages = await fetchCurrentImagesFromAirtable(...) || []
UpRead1Done ==
    /\ upPc = "read1"
    /\ \E o \in FetchOutcomes :
          LET r == IF warrantyId = NoKey THEN <<>> ELSE ReadResult(o, stored) IN
          /\ existingImages' = r
          /\ uploadedUrls' = r
    /\ readsDone' = 1
    /\ idx' = 1
    /\ EnterLoop(1)
    /\ UNCHANGED <<stored, storedAtStart, dropboxAccessToken, warrantyId, files,
                   latestFromAirtable, combinedList, inFlight, refreshes, toasts,
                   patches, patchBody, uploadInProgress, writeOutcome>>
    /\ UNCHANGED nonUpVars

\* compressImage has settled; uploadFileToDropbox issues the upload request
UpCompressDone ==
    /\ upPc = "compress"
    /\ inFlight' = inFlight \cup {Req(idx, "upload")}
    /\ upPc' = PcAfterUploadIssued
    /\ UNCHANGED <<stored, storedAtStart, dropboxAccessToken, warrantyId, files, idx,
                   fileState, existingImages, uploadedUrls, latestFromAirtable,
                   combinedList, refreshes, toasts, patches, patchBody, readsDone,
                   uploadInProgress, writeOutcome>>
    /\ UNCHANGED nonUpVars

\* uploadFileToDropbox: the upload request is answered
UpUploadResponse ==
    /\ upPc = "uploading"
    /\ \E o \in FetchOutcomes, expired \in BOOLEAN :
          /\ expired => (o.kind = "response" /\ o.status = 401 /\ refreshes < MaxRefresh)
          /\ IF Ok(o)
                THEN /\ inFlight' = (inFlight \ {Req(idx, "upload")}) \cup {Req(idx, "link")}
                     /\ upPc' = "linking"
                     /\ UNCHANGED <<fileState, uploadedUrls>>
                ELSE IF expired
                THEN /\ inFlight' = (inFlight \ {Req(idx, "upload")}) \cup {Req(idx, "refresh")}
                     /\ upPc' = "refreshing"
                     /\ UNCHANGED <<fileState, uploadedUrls>>
                ELSE /\ inFlight' = inFlight \ {Req(idx, "upload")}
                     /\ FileFailed
    /\ UNCHANGED <<stored, storedAtStart, dropboxAccessToken, warrantyId, files, idx,
                   existingImages, latestFromAirtable, combinedList, refreshes, toasts,
                   patches, patchBody, readsDone, uploadInProgress, writeOutcome>>
    /\ UNCHANGED nonUpVars

\* refreshDropboxAccessToken and fetchDropboxToken have settled: with a new
\* token the upload is issued again, without one the file fails
UpRefreshDone ==
    /\ upPc = "refreshing"
    /\ refreshes' = refreshes + 1
    /\ \E t \in {0, Token} :
          IF t # 0
             THEN /\ dropboxAccessToken' = t
                  /\ inFlight' = (inFlight \ {Req(idx, "refresh")}) \cup {Req(idx, "upload")}
                  /\ upPc' = "uploading"
                  /\ UNCHANGED <<fileState, uploadedUrls>>
             ELSE /\ inFlight' = inFlight \ {Req(idx, "refresh")}
                  /\ FileFailed
                  /\ UNCHANGED dropboxAccessToken
    /\ UNCHANGED <<stored, storedAtStart, warrantyId, files, idx, existingImages,
                   latestFromAirtable, combinedList, toasts, patches, patchBody,
                   readsDone, uploadInProgress, writeOutcome>>
    /\ UNCHANGED nonUpVars

\* getDropboxSharedLink: create_shared_link_with_settings is answered
UpLinkResponse ==
    /\ upPc = "linking"
    /\ \E o \in FetchOutcomes, u \in Urls :
          IF o.kind = "response" /\ o.status = 409
             THEN /\ inFlight' = (inFlight \ {Req(idx, "link")}) \cup {Req(idx, "list")}
                  /\ upPc' = "listing"
                  /\ UNCHANGED <<fileState, uploadedUrls>>
             ELSE /\ inFlight' = inFlight \ {Req(idx, "link")}
                  /\ IF Ok(o) THEN FileUploaded(u) ELSE FileFailed
    /\ UNCHANGED <<stored, storedAtStart, dropboxAccessToken, warrantyId, files, idx,
                   existingImages, latestFromAirtable, combinedList, refreshes, toasts,
                   patches, patchBody, readsDone, uploadInProgress, writeOutcome>>
    /\ UNCHANGED nonUpVars

\* getExistingDropboxLink: list_shared_links is answered
UpListResponse ==
    /\ upPc = "listing"
    /\ inFlight' = inFlight \ {Req(idx, "list")}
    /\ \E o \in FetchOutcomes, u \in Urls, hasLinks \in BOOLEAN :
          IF Ok(o) /\ hasLinks THEN FileUploaded(u) ELSE FileFailed
    /\ UNCHANGED <<stored, storedAtStart, dropboxAccessToken, warrantyId, files, idx,
                   existingImages, latestFromAirtable, combinedList, refreshes, toasts,
                   patches, patchBody, readsDone, uploadInProgress, writeOutcome>>
    /\ UNCHANGED nonUpVars

\* await displayImages([uploadedFile], ...) has settled
UpDisplayed ==
    /\ upPc = "display"
    /\ upPc' = "advance"
    /\ UNCHANGED <<stored, storedAtStart, dropboxAccessToken, warrantyId, files, idx,
                   fileState, existingImages, uploadedUrls, latestFromAirtable,
                   combinedList, inFlight, refreshes, toasts, patches, patchBody,
                   readsDone, uploadInProgress, writeOutcome>>
    /\ UNCHANGED nonUpVars

\* the end of the loop body: index++, and the next file or the re-read
UpAdvance ==
    /\ upPc = "advance"
    /\ idx' = idx + 1
    /\ EnterLoop(idx + 1)
    /\ UNCHANGED <<stored, storedAtStart, dropboxAccessToken, warrantyId, files,
                   existingImages, uploadedUrls, latestFromAirtable, combinedList,
                   inFlight, refreshes, toasts, patches, patchBody, readsDone,
                   uploadInProgress, writeOutcome>>
    /\ UNCHANGED nonUpVars

\* the re-read is answered; the merge; updateAirtableRecord up to its first await
UpRead2Done ==
    /\ upPc = "read2"
    /\ readsDone' = 2
    /\ \E o \in FetchOutcomes, online \in BOOLEAN :
          LET r == IF warrantyId = NoKey THEN <<>> ELSE ReadResult(o, stored)
              merged == Merge(r, uploadedUrls) IN
          /\ latestFromAirtable' = r
          /\ combinedList' = merged
          /\ IF ~online
                THEN /\ Finish("offline", <<"offline">>)
                     /\ UNCHANGED <<patches, patchBody>>
                ELSE IF warrantyId = NoKey
                THEN /\ Finish("nokey", <<>>)
                     /\ UNCHANGED <<patches, patchBody>>
                ELSE IF ~StartsWithRec(warrantyId)
                THEN /\ upPc' = "resolving"
                     /\ UNCHANGED <<patches, patchBody, toasts, uploadInProgress,
                                    writeOutcome>>
                ELSE /\ upPc' = "patching"
                     /\ patches' = patches + 1
                     /\ patchBody' = merged
                     /\ UNCHANGED <<toasts, uploadInProgress, writeOutcome>>
    /\ UNCHANGED <<stored, storedAtStart, dropboxAccessToken, warrantyId, files, idx,
                   fileState, existingImages, uploadedUrls, inFlight, refreshes>>
    /\ UNCHANGED nonUpVars

\* getRecordIdByWarrantyId is answered; with a record id the PATCH is issued
UpResolved ==
    /\ upPc = "resolving"
    /\ \E o \in FetchOutcomes :
          IF Ok(o)
             THEN /\ upPc' = "patching"
                  /\ patches' = patches + 1
                  /\ patchBody' = combinedList
                  /\ UNCHANGED <<toasts, uploadInProgress, writeOutcome>>
             ELSE /\ Finish("unresolved", <<>>)
                  /\ UNCHANGED <<patches, patchBody>>
    /\ UNCHANGED <<stored, storedAtStart, dropboxAccessToken, warrantyId, files, idx,
                   fileState, existingImages, uploadedUrls, latestFromAirtable,
                   combinedList, inFlight, refreshes, readsDone>>
    /\ UNCHANGED nonUpVars

\* the PATCH is answered: the store takes the list, or the write fails; a
\* refusal is notified when its body parses as JSON (otherwise response.text()
\* is called on the consumed body and the outer catch only logs)
UpPatchResponse ==
    /\ upPc = "patching"
    /\ \E o \in FetchOutcomes, parsed \in BOOLEAN :
          /\ (Ok(o) \/ o.kind = "throw") => parsed
          /\ IF Ok(o)
                THEN /\ stored' = patchBody
                     /\ Finish("patched", <<"record_updated">>)
                ELSE /\ stored' = stored
                     /\ IF o.kind = "throw"
                           THEN Finish("patch_threw", <<>>)
                           ELSE Finish("patch_refused",
                                       IF parsed THEN <<"airtable_error">> ELSE <<>>)
    /\ UNCHANGED <<storedAtStart, dropboxAccessToken, warrantyId, files, idx,
                   fileState, existingImages, uploadedUrls, latestFromAirtable,
                   combinedList, inFlight, refreshes, patches, patchBody, readsDone>>
    /\ UNCHANGED nonUpVars

NextUpload ==
    \/ UploadChange
    \/ EnsureTokenDone
    \/ UpRead1Done
    \/ UpCompressDone
    \/ UpUploadResponse
    \/ UpRefreshDone
    \/ UpLinkResponse
    \/ UpListResponse
    \/ UpDisplayed
    \/ UpAdvance
    \/ UpRead2Done
    \/ UpResolved
    \/ UpPatchResponse

SpecUpload == UpInit /\ [][NextUpload]_vars
(***************************************************************************)
(* Two upload batches side by side and the beforeunload guard              *)
(* (src/detail.js:1439-1461, 2402-2472, 2580-2592).  The awaits of one     *)
(* file (compress, upload, link, display) are one step here: none of them  *)
(* touches uploadInProgress.                                               *)
(***************************************************************************)
\* the positions at which uploadToDropbox has set the flag and not yet
\* returned from updateAirtableRecord
Running == {"read1", "file", "read2", "write"}

\* the part of upVars the two handlers do not touch here
upRestVars == <<stored, storedAtStart, upPc, warrantyId, files, idx, fileState,
                existingImages, uploadedUrls, latestFromAirtable, combinedList,
                inFlight, refreshes, toasts, patches, patchBody, readsDone, writeOutcome>>

\* the beforeunload handler asks for confirmation
GuardActive == uploadInProgress

\* uploadInProgress = false, whatever else is running
FlagWhenBatchEnds(pcs, b) == FALSE

GdInit ==
    /\ PfIdle
    /\ UlIdle
    /\ RsIdle
    /\ SwIdle
    /\ RrIdle
    /\ FwIdle
    /\ UpIdle
    /\ TkIdle
    /\ StIdle
    /\ DlIdle
    /\ CrIdle
    /\ RcIdle
    /\ LkIdle
    /\ batchPc = [b \in Inputs |-> "idle"]
    /\ batchLeft = [b \in Inputs |-> 0]

\* uploadToDropbox up to its first await: the token check, the flag, the read
GdBegin(b, tok) ==
    IF tok = 0
        THEN /\ batchPc' = [batchPc EXCEPT ![b] = "done"]
             /\ UNCHANGED uploadInProgress
        ELSE /\ batchPc' = [batchPc EXCEPT ![b] = "read1"]
             /\ uploadInProgress' = TRUE

\* a change event of input b with n files; ensureDropboxToken
GdChange(b) ==
    /\ batchPc[b] \in {"idle", "done"}
    /\ \E n \in 1..MaxFiles : batchLeft' = [batchLeft EXCEPT ![b] = n]
    /\ IF dropboxAccessToken = 0
          THEN /\ batchPc' = [batchPc EXCEPT ![b] = "ensure"]
               /\ UNCHANGED uploadInProgress
          ELSE GdBegin(b, dropboxAccessToken)
    /\ UNCHANGED <<dropboxAccessToken, upRestVars, nonGdVars>>

\* ensureDropboxToken has settled for input b
GdEnsured(b) ==
    /\ batchPc[b] = "ensure"
    /\ \E t \in {0, Token} :
          \* if (!dropboxAccessToken) dropboxAccessToken = await fetchDropboxToken()
          LET tok == IF dropboxAccessToken = 0 THEN t ELSE dropboxAccessToken IN
          /\ dropboxAccessToken' = tok
          /\ IF TokenMissing(tok)
                THEN /\ batchPc' = [batchPc EXCEPT ![b] = "done"]
                     /\ UNCHANGED uploadInProgress
                ELSE GdBegin(b, tok)
    /\ UNCHANGED <<batchLeft, upRestVars, nonGdVars>>

\* the first read of batch b is answered: the loop starts
GdRead1Done(b) ==
    /\ batchPc[b] = "read1"
    /\ batchPc' = [batchPc EXCEPT ![b] = "file"]
    /\ UNCHANGED <<batchLeft, uploadInProgress, dropboxAccessToken, upRestVars, nonGdVars>>

\* one file of batch b has been attempted
GdFileDone(b) ==
    /\ batchPc[b] = "file"
    /\ batchLeft' = [batchLeft EXCEPT ![b] = batchLeft[b] - 1]
    /\ batchPc' = [batchPc EXCEPT ![b] = IF batchLeft[b] = 1 THEN "read2" ELSE "file"]
    /\ UNCHANGED <<uploadInProgress, dropboxAccessToken, upRestVars, nonGdVars>>

\* the re-read of batch b is answered: merge, updateAirtableRecord is called
GdRead2Done(b) ==
    /\ batchPc[b] = "read2"
    /\ batchPc' = [batchPc EXCEPT ![b] = "write"]
    /\ UNCHANGED <<batchLeft, uploadInProgress, dropboxAccessToken, upRestVars, nonGdVars>>

\* updateAirtableRecord has returned to batch b: uploadInProgress = false
GdWriteDone(b) ==
    /\ batchPc[b] = "write"
    /\ batchPc' = [batchPc EXCEPT ![b] = "done"]
    /\ uploadInProgress' = FlagWhenBatchEnds(batchPc, b)
    /\ UNCHANGED <<batchLeft, dropboxAccessToken, upRestVars, nonGdVars>>

NextGuard ==
    \E b \in Inputs :
        \/ GdChange(b)
        \/ GdEnsured(b)
        \/ GdRead1Done(b)
        \/ GdFileDone(b)
        \/ GdRead2Done(b)
        \/ GdWriteDone(b)

SpecGuard == GdInit /\ [][NextGuard]_vars

(***************************************************************************)
(* The token broker: fetchDropboxToken, refreshDropboxAccessToken          *)
(* (src/detail.js:2279-2391) and uploadFileToDropbox (2513-2578).          *)
(* The 429 branch of uploadFileToDropbox is left out: fetchWithRetry never *)
(* hands it a 429.                                                         *)
(***************************************************************************)
MaxTok == 3
MaxExpiries == 2

\* the token the credential record holds when the page is opened
OldToken == 1

\* what a bare fetch() hands its caller: any response, or a rejection
RawOutcomes ==
    {[kind |-> "response", status |-> st] : st \in Statuses}
        \cup {[kind |-> "throw", status |-> 0]}

\* the credential records the table may hold when the page is opened
Records ==
    {NoRecord} \cup [exists : {TRUE}, appKey : 0..1, appSecret : 0..1,
                     token : {0, OldToken}, refresh : 0..1]

nonTkVars == <<upRestVars, uploadInProgress, fwVars, gdVars, stVars, dlVars, crVars, rcVars, lkVars, rrVars, swVars, rsVars, ulVars, pfVars>>

FetchDecideTokenFirst(r) ==
    IF ~r.exists THEN "null"
    ELSE IF r.token # 0 THEN "token"
    ELSE IF r.appKey = 0 \/ r.appSecret = 0 THEN "null"
    ELSE IF r.refresh # 0 THEN "refresh"
    ELSE "null"

\* fetchDropboxToken once the record is read: no record, no key or secret,
\* a token, a refresh token, nothing
FetchDecide(r) ==
    IF ~r.exists THEN "null"
    ELSE IF r.appKey = 0 \/ r.appSecret = 0 THEN "null"
    ELSE IF r.token # 0 THEN "token"
    ELSE IF r.refresh # 0 THEN "refresh"
    ELSE "null"

NoRecordIdAlways(o, r) == TRUE
\* const recordId = tokenData.records?.[0]?.id; if (!recordId)
NoRecordId(o, r) == ~(Ok(o) /\ r.exists)

\* the authorization server accepts the exchange only with all three values
ExchangeAccepted(o, args) ==
    /\ Ok(o)
    /\ args.refreshToken # 0 /\ args.appKey # 0 /\ args.appSecret # 0
    /\ issued < MaxTok

\* a call returns v: the waiting calls go on, innermost first
RECURSIVE Unwind(_, _, _)
Unwind(stack, v, tok) ==
    LET frame == stack[Len(stack)]
        rest == SubSeq(stack, 1, Len(stack) - 1)
    IN  CASE frame = "top" ->
                [pc |-> "idle", stack |-> <<>>, res |-> v, tok |-> tok]
          [] frame = "fetch_ret" ->
                \* return await refreshDropboxAccessToken(...)
                Unwind(rest, v, tok)
          [] frame = "up_after_refresh" ->
                \* const newToken = await fetchDropboxToken()
                [pc |-> "f_read", stack |-> Append(rest, "up_after_fetch"),
                 res |-> Pending, tok |-> tok]
          [] frame = "up_after_fetch" ->
                \* if (newToken) return await uploadFileToDropbox(file, newToken, creds)
                IF v # 0
                   THEN [pc |-> "u_upload", stack |-> rest, res |-> Pending, tok |-> v]
                   ELSE Unwind(rest, 0, tok)
          [] frame = "up_top" ->
                [pc |-> "idle", stack |-> <<>>, res |-> v, tok |-> tok]

Return(v) ==
    LET u == Unwind(tkStack, v, tkToken) IN
    /\ tkPc' = u.pc
    /\ tkStack' = u.stack
    /\ tkResult' = u.res
    /\ tkToken' = u.tok
    /\ tkUploads' = IF u.pc = "u_upload" THEN tkUploads + 1 ELSE tkUploads

TkInit ==
    /\ PfIdle
    /\ UlIdle
    /\ RsIdle
    /\ SwIdle
    /\ RrIdle
    /\ FwIdle
    /\ UpIdle
    /\ GdIdle
    /\ StIdle
    /\ DlIdle
    /\ CrIdle
    /\ RcIdle
    /\ LkIdle
    /\ rec \in Records
    /\ issued = OldToken
    /\ dropboxAppKey = 0 /\ dropboxAppSecret = 0 /\ dropboxRefreshToken = 0
    /\ tkPc = "idle"
    /\ tkStack = <<>>
    /\ tkCall = "none"
    /\ tkResult = Pending
    /\ tkToken = 0
    /\ tkCreds = NoCreds
    /\ refArgs = NoCreds
    /\ fRead = "none"
    /\ viaRefresh = FALSE
    /\ wb = "none"
    /\ expiries = 0
    /\ tkUploads = 0

\* fetchDropboxToken() is called
TkCallFetch ==
    /\ tkPc = "idle"
    /\ tkPc' = "f_read"
    /\ tkStack' = <<"top">>
    /\ tkCall' = "fetch"
    /\ tkResult' = Pending
    /\ viaRefresh' = FALSE
    /\ fRead' = "none"
    /\ wb' = "none"
    /\ expiries' = 0
    /\ tkUploads' = 0
    /\ UNCHANGED <<rec, issued, dropboxAppKey, dropboxAppSecret, dropboxRefreshToken,
                   tkToken, tkCreds, refArgs, dropboxAccessToken>>
    /\ UNCHANGED nonTkVars

\* fetchDropboxToken: the read of the credential record has settled
TkFetchRead ==
    /\ tkPc = "f_read"
    /\ \E o \in FetchOutcomes :
          IF ~Ok(o)
             THEN /\ fRead' = "failed"
                  /\ Return(0)
                  /\ UNCHANGED <<dropboxAppKey, dropboxAppSecret, dropboxRefreshToken,
                                 dropboxAccessToken, refArgs, viaRefresh, wb>>
          ELSE IF ~rec.exists
             THEN /\ fRead' = "norecord"
                  /\ Return(0)
                  /\ UNCHANGED <<dropboxAppKey, dropboxAppSecret, dropboxRefreshToken,
                                 dropboxAccessToken, refArgs, viaRefresh, wb>>
          ELSE /\ fRead' = "read"
               /\ dropboxAppKey' = rec.appKey
               /\ dropboxAppSecret' = rec.appSecret
               /\ dropboxRefreshToken' = rec.refresh
               /\ CASE FetchDecide(rec) = "null" ->
                          /\ Return(0)
                          /\ UNCHANGED <<dropboxAccessToken, refArgs, viaRefresh, wb>>
                    [] FetchDecide(rec) = "token" ->
                          /\ dropboxAccessToken' = rec.token
                          /\ Return(rec.token)
                          /\ UNCHANGED <<refArgs, viaRefresh, wb>>
                    [] FetchDecide(rec) = "refresh" ->
                          /\ refArgs' = [refreshToken |-> rec.refresh,
                                         appKey |-> rec.appKey,
                                         appSecret |-> rec.appSecret]
                          /\ viaRefresh' = TRUE
                          /\ wb' = "none"
                          /\ tkPc' = "r_auth"
                          /\ tkStack' = Append(tkStack, "fetch_ret")
                          /\ UNCHANGED <<dropboxAccessToken, tkResult, tkToken, tkUploads>>
    /\ UNCHANGED <<rec, issued, tkCall, tkCreds, expiries>>
    /\ UNCHANGED nonTkVars

\* refreshDropboxAccessToken: the exchange at oauth2/token has settled
TkAuthResponse ==
    /\ tkPc = "r_auth"
    /\ \E o \in FetchOutcomes :
          IF ExchangeAccepted(o, refArgs)
             THEN /\ issued' = issued + 1
                  /\ dropboxAccessToken' = issued + 1
                  /\ tkPc' = "r_get"
                  /\ UNCHANGED <<tkStack, tkResult, tkToken, tkUploads>>
             ELSE /\ Return(0)
                  /\ UNCHANGED <<issued, dropboxAccessToken>>
    /\ UNCHANGED <<rec, dropboxAppKey, dropboxAppSecret, dropboxRefreshToken, tkCall,
                   tkCreds, refArgs, fRead, viaRefresh, wb, expiries>>
    /\ UNCHANGED nonTkVars

\* refreshDropboxAccessToken: the read of the record's id has settled
TkGetResponse ==
    /\ tkPc = "r_get"
    /\ \E o \in RawOutcomes :
          IF o.kind = "throw"
             THEN /\ wb' = "threw"
                  /\ Return(0)
          ELSE IF NoRecordId(o, rec)
             THEN /\ wb' = IF Ok(o) THEN "norecord" ELSE "noid"
                  /\ Return(dropboxAccessToken)
          ELSE /\ wb' = "sending"
               /\ tkPc' = "r_patch"
               /\ UNCHANGED <<tkStack, tkResult, tkToken, tkUploads>>
    /\ UNCHANGED <<rec, issued, dropboxAppKey, dropboxAppSecret, dropboxRefreshToken,
                   tkCall, tkCreds, refArgs, fRead, viaRefresh, expiries,
                   dropboxAccessToken>>
    /\ UNCHANGED nonTkVars

\* refreshDropboxAccessToken: the PATCH of the record has settled; its
\* response is not looked at
TkPatchResponse ==
    /\ tkPc = "r_patch"
    /\ \E o \in RawOutcomes :
          IF o.kind = "throw"
             THEN /\ wb' = "threw"
                  /\ Return(0)
                  /\ UNCHANGED rec
          ELSE IF Ok(o)
             THEN /\ wb' = "accepted"
                  /\ rec' = [rec EXCEPT !.token = dropboxAccessToken]
                  /\ Return(dropboxAccessToken)
          ELSE /\ wb' = "refused"
               /\ Return(dropboxAccessToken)
               /\ UNCHANGED rec
    /\ UNCHANGED <<issued, dropboxAppKey, dropboxAppSecret, dropboxRefreshToken, tkCall,
                   tkCreds, refArgs, fRead, viaRefresh, expiries, dropboxAccessToken>>
    /\ UNCHANGED nonTkVars

\* uploadFileToDropbox(file, dropboxAccessToken, creds) is called
TkCallUpload ==
    /\ tkPc = "idle"
    /\ tkCall' = "upload"
    /\ tkToken' = dropboxAccessToken
    /\ tkCreds' = [refreshToken |-> dropboxRefreshToken, appKey |-> dropboxAppKey,
                   appSecret |-> dropboxAppSecret]
    /\ expiries' = 0
    /\ viaRefresh' = FALSE
    /\ fRead' = "none"
    /\ wb' = "none"
    /\ IF TokenMissing(dropboxAccessToken)
          THEN /\ tkResult' = 0
               /\ tkUploads' = 0
               /\ UNCHANGED <<tkPc, tkStack>>
          ELSE /\ tkResult' = Pending
               /\ tkUploads' = 1
               /\ tkPc' = "u_upload"
               /\ tkStack' = <<"up_top">>
    /\ UNCHANGED <<rec, issued, dropboxAppKey, dropboxAppSecret, dropboxRefreshToken,
                   refArgs, dropboxAccessToken>>
    /\ UNCHANGED nonTkVars

\* uploadFileToDropbox: files/upload is answered
TkUploadResponse ==
    /\ tkPc = "u_upload"
    /\ \E o \in FetchOutcomes, expired \in BOOLEAN :
          /\ expired => (o.kind = "response" /\ o.status = 401 /\ expiries < MaxExpiries)
          /\ IF Ok(o)
                THEN /\ tkPc' = "u_link"
                     /\ UNCHANGED <<tkStack, tkResult, tkToken, tkUploads, refArgs,
                                    expiries, wb>>
             ELSE IF expired
                THEN \* await refreshDropboxAccessToken(creds.refreshToken, ...)
                     /\ expiries' = expiries + 1
                     /\ refArgs' = tkCreds
                     /\ wb' = "none"
                     /\ tkPc' = "r_auth"
                     /\ tkStack' = Append(tkStack, "up_after_refresh")
                     /\ UNCHANGED <<tkResult, tkToken, tkUploads>>
             ELSE /\ Return(0)
                  /\ UNCHANGED <<refArgs, expiries, wb>>
    /\ UNCHANGED <<rec, issued, dropboxAppKey, dropboxAppSecret, dropboxRefreshToken,
                   tkCall, tkCreds, fRead, viaRefresh, dropboxAccessToken>>
    /\ UNCHANGED nonTkVars

\* uploadFileToDropbox: getDropboxSharedLink has returned a link or null
TkLinkResponse ==
    /\ tkPc = "u_link"
    /\ \E link \in {0, 1} : Return(link)
    /\ UNCHANGED <<rec, issued, dropboxAppKey, dropboxAppSecret, dropboxRefreshToken,
                   tkCall, tkCreds, refArgs, fRead, viaRefresh, wb, expiries,
                   dropboxAccessToken>>
    /\ UNCHANGED nonTkVars

NextToken ==
    \/ TkCallFetch
    \/ TkFetchRead
    \/ TkAuthResponse
    \/ TkGetResponse
    \/ TkPatchResponse
    \/ TkCallUpload
    \/ TkUploadResponse
    \/ TkLinkResponse

SpecToken == TkInit /\ [][NextToken]_vars

(***************************************************************************)
(* Reads and writes of the record store: fetchCurrentImagesFromAirtable    *)
(* (src/detail.js:704-740), getRecordIdByWarrantyId (883-903) and          *)
(* updateAirtableRecord (3018-3086).                                       *)
(***************************************************************************)
MaxMatches == 2

\* record ids of the store
RecA == <<"r", "e", "c", "A">>
RecB == <<"r", "e", "c", "B">>

\* the keys a caller passes: null, a business key, a record id
Keys == {NoKey, BizKey, RecA}

\* a matched record: its id and its attachment field (<<>> when absent)
StRecords == [id : {RecA, RecB}, images : {<<>>, <<[id |-> 1, url |-> 1, filename |-> 0]>>}]

\* what the filter on the key matches
StTables ==
    UNION {{t \in [1..n -> StRecords] : \A i, j \in 1..n : t[i].id = t[j].id => i = j}
              : n \in 0..MaxMatches}

\* what fetchWithRetry hands its caller, with the kind of body: the data asked
\* for, an error object with or without a message, or text that is not JSON
StAnswers ==
    {[kind |-> o.kind, status |-> o.status, body |-> b] :
        o \in {x \in FetchOutcomes : Ok(x)}, b \in {"data", "garbage"}}
    \cup {[kind |-> o.kind, status |-> o.status, body |-> b] :
        o \in {x \in FetchOutcomes : x.kind = "response" /\ ~Ok(x)},
        b \in {"error_msg", "error_nomsg", "garbage"}}
    \cup {[kind |-> "throw", status |-> 0, body |-> "none"]}

nonStVars == <<upVars, fwVars, gdVars, tkVars, dlVars, crVars, rcVars, lkVars, rrVars, swVars, rsVars, ulVars, pfVars>>

\* if (!warrantyId)
KeyMissing(k) == k = NoKey

\* the try block of fetchCurrentImagesFromAirtable
ReadTry(a, recs) ==
    IF a.kind = "throw" THEN [threw |-> TRUE, val |-> <<>>]
    ELSE IF ~Ok(a) THEN [threw |-> FALSE, val |-> <<>>]
    ELSE IF a.body = "garbage" THEN [threw |-> TRUE, val |-> <<>>]
    ELSE IF Len(recs) = 0 THEN [threw |-> FALSE, val |-> <<>>]
    ELSE IF recs[1].images # <<>> THEN [threw |-> FALSE, val |-> recs[1].images]
    ELSE [threw |-> FALSE, val |-> <<>>]

ReadImagesUncaught(a, recs) == ReadTry(a, recs)
\* fetchCurrentImagesFromAirtable: catch (error) { return [] }
ReadImages(a, recs) ==
    IF ReadTry(a, recs).threw THEN [threw |-> FALSE, val |-> <<>>] ELSE ReadTry(a, recs)

\* getRecordIdByWarrantyId: the id of the first match, or null (NoKey); the
\* status of the response is not looked at
GetRecordId(a, recs) ==
    IF a.kind = "throw" \/ a.body = "garbage" THEN NoKey
    ELSE IF a.body = "data" /\ Len(recs) > 0 THEN recs[1].id
    ELSE NoKey

NeedsLookupNever(k) == FALSE
\* if (!resolvedRecordId.startsWith("rec"))
NeedsLookup(k) == ~StartsWithRec(k)

\* updateAirtableRecord once the PATCH has settled: the notifications.  On a
\* refusal whose body is not JSON response.text() is called on the consumed
\* body and rejects: the outer catch only logs.
PatchToasts(a) ==
    IF a.kind = "throw" THEN <<>>
    ELSE IF Ok(a) THEN <<"success">>
    ELSE IF a.body = "error_msg" THEN <<"airtable_msg">>
    ELSE IF a.body = "error_nomsg" THEN <<"airtable_unknown">>
    ELSE <<>>

StInit ==
    /\ PfIdle
    /\ UlIdle
    /\ RsIdle
    /\ SwIdle
    /\ RrIdle
    /\ FwIdle
    /\ UpIdle
    /\ GdIdle
    /\ TkIdle
    /\ DlIdle
    /\ CrIdle
    /\ RcIdle
    /\ LkIdle
    /\ stRecs \in StTables
    /\ stOp = "none"
    /\ stKey = NoKey
    /\ stPc = "idle"
    /\ stRequests = <<>>
    /\ stAnswer = NoAnswer
    /\ stResolved = NoKey
    /\ stResult = NoResult
    /\ stToasts = <<>>

\* fetchCurrentImagesFromAirtable(key, field) is called
StCallRead ==
    /\ stPc = "idle"
    /\ \E k \in Keys :
          /\ stKey' = k
          /\ IF KeyMissing(k)
                THEN /\ stPc' = "idle"
                     /\ stRequests' = <<>>
                ELSE /\ stPc' = "reading"
                     /\ stRequests' = <<[what |-> "read", addr |-> k]>>
    /\ stOp' = "read"
    /\ stAnswer' = NoAnswer
    /\ stResolved' = NoKey
    /\ stResult' = NoResult
    /\ stToasts' = <<>>
    /\ UNCHANGED stRecs
    /\ UNCHANGED nonStVars

\* fetchCurrentImagesFromAirtable: the read has settled
StReadResponse ==
    /\ stPc = "reading"
    /\ \E a \in StAnswers :
          /\ stAnswer' = a
          /\ stResult' = ReadImages(a, stRecs)
    /\ stPc' = "idle"
    /\ UNCHANGED <<stRecs, stOp, stKey, stRequests, stResolved, stToasts>>
    /\ UNCHANGED nonStVars

\* updateAirtableRecord(table, key, fields) is called
StCallWrite ==
    /\ stPc = "idle"
    /\ \E k \in Keys, online \in BOOLEAN :
          /\ stKey' = k
          /\ IF ~online
                THEN /\ stToasts' = <<"offline">>
                     /\ stPc' = "idle"
                     /\ stRequests' = <<>>
             ELSE IF k = NoKey
                THEN \* null.startsWith: a TypeError, caught and logged
                     /\ stToasts' = <<>>
                     /\ stPc' = "idle"
                     /\ stRequests' = <<>>
             ELSE IF NeedsLookup(k)
                THEN /\ stToasts' = <<>>
                     /\ stPc' = "resolving"
                     /\ stRequests' = <<[what |-> "lookup", addr |-> k]>>
             ELSE /\ stToasts' = <<>>
                  /\ stPc' = "patching"
                  /\ stRequests' = <<[what |-> "patch", addr |-> k]>>
    /\ stOp' = "write"
    /\ stAnswer' = NoAnswer
    /\ stResolved' = NoKey
    /\ stResult' = NoResult
    /\ UNCHANGED stRecs
    /\ UNCHANGED nonStVars

\* updateAirtableRecord: getRecordIdByWarrantyId has returned
StLookupResponse ==
    /\ stPc = "resolving"
    /\ \E a \in StAnswers :
          /\ stAnswer' = a
          /\ stResolved' = GetRecordId(a, stRecs)
          /\ IF GetRecordId(a, stRecs) = NoKey
                THEN \* console.error; return
                     /\ stPc' = "idle"
                     /\ UNCHANGED stRequests
                ELSE /\ stPc' = "patching"
                     /\ stRequests' =
                           Append(stRequests,
                                  [what |-> "patch", addr |-> GetRecordId(a, stRecs)])
    /\ UNCHANGED <<stRecs, stOp, stKey, stResult, stToasts>>
    /\ UNCHANGED nonStVars

\* updateAirtableRecord: the PATCH has settled
StPatchResponse ==
    /\ stPc = "patching"
    /\ \E a \in StAnswers :
          /\ stAnswer' = a
          /\ stToasts' = stToasts \o PatchToasts(a)
    /\ stPc' = "idle"
    /\ UNCHANGED <<stRecs, stOp, stKey, stRequests, stResolved, stResult>>
    /\ UNCHANGED nonStVars

NextStore ==
    \/ StCallRead
    \/ StReadResponse
    \/ StCallWrite
    \/ StLookupResponse
    \/ StPatchResponse

SpecStore == StInit /\ [][NextStore]_vars

(***************************************************************************)
(* Deletion of attachments: the carousel's delete handler                  *)
(* (src/detail.js:465-526) and the bulk deletion, the delete-images-btn    *)
(* handler with deleteImagesByLotName (1967-2019).  An attachment is       *)
(* represented by its id.                                                  *)
(***************************************************************************)
MaxAtt == 2

AttIds == 1..MaxAtt

\* lists of attachments, in the order of their ids
AttLists ==
    UNION {{l \in [1..n -> AttIds] : \A i, j \in 1..n : i < j => l[i] < l[j]}
              : n \in 0..MaxAtt}

IdsIn(l) == {l[i] : i \in 1..Len(l)}

\* what the store may hold: an attachment belongs to one field at most
DlTables ==
    {t \in [Fields -> AttLists] :
        \A f, g \in Fields : f # g => IdsIn(t[f]) \cap IdsIn(t[g]) = {}}

MaxShown == 3
\* the moves remembered: enough for a full turn of the longest working set
MaxNav == MaxShown

\* const swipeThreshold = 100
SwipeThreshold == 100

\* the working sets the carousel may be opened on: the first n attachments shown
ShownLists == {[i \in 1..n |-> i] : n \in 1..MaxShown}

nonDlVars == <<upVars, fwVars, gdVars, tkVars, stVars, rcVars, lkVars, rrVars, swVars, rsVars, ulVars, pfVars>>

\* existing.filter(file => file.id !== fileToDelete.id)
\* existingImages.filter(img => !imageIdsToDelete.includes(img.id))
Without(list, ids) == SelectSeq(list, LAMBDA x : x \notin ids)

\* the write is skipped: deleteImagesByLotName returns when nothing was read
\* or nothing was filtered out, the carousel handler writes in every case
SkipsWrite(path, existing, updated) ==
    /\ path = "bulk"
    /\ Len(existing) = 0 \/ Len(updated) = Len(existing)

ClampIndexKept(i, n) == i
\* Math.min(currentCarouselIndex, currentCarouselFiles.length - 1)
ClampIndex(i, n) == IF i < n - 1 THEN i ELSE n - 1

NextIndexNoWrap(i, n) == IF i + 1 < n THEN i + 1 ELSE i
NextIndexByTwo(i, n) == (i + 2) % n
\* (currentCarouselIndex + 1) % currentCarouselFiles.length
NextIndex(i, n) == (i + 1) % n

PrevIndexNoWrap(i, n) == IF i > 0 THEN i - 1 ELSE i
PrevIndexBelow(i, n) == i - 1
\* (currentCarouselIndex - 1 + currentCarouselFiles.length) % currentCarouselFiles.length
PrevIndex(i, n) == (i - 1 + n) % n

\* if (!Array.isArray(currentCarouselFiles) || currentCarouselFiles.length === 0) return
NavBlocked(shown) == Len(shown) = 0

SwipeIgnoredNever(enabled) == FALSE
\* if (!globalSwipeEnabled) return
SwipeIgnored(enabled) == ~enabled

\* displayCarouselItem(index): the file rendered, the old one on an invalid index
DisplayCarouselItem(list, index, shown) ==
    IF index < 0 \/ index >= Len(list) THEN shown ELSE list[index + 1]

\* the window of the last MaxNav moves
Push(log, e) == IF Len(log) >= MaxNav THEN Append(Tail(log), e) ELSE Append(log, e)

\* the handler of delete-images-btn goes on to the second field, then ends
AfterField(f) == IF f = "Picture(s) of Issue" THEN "Completed  Pictures" ELSE "none"

\* closeCarousel()
CloseCarousel ==
    /\ carouselOpen' = FALSE
    /\ bodyOverflow' = "auto"
    /\ globalSwipeEnabled' = TRUE
    /\ currentCarouselFiles' = <<>>
    /\ currentCarouselIndex' = 0
    /\ currentCarouselField' = "none"
    /\ currentWarrantyId' = NoKey

DlInit ==
    /\ PfIdle
    /\ UlIdle
    /\ RsIdle
    /\ SwIdle
    /\ RrIdle
    /\ FwIdle
    /\ UpIdle
    /\ GdIdle
    /\ TkIdle
    /\ StIdle
    /\ RcIdle
    /\ LkIdle
    /\ dlStored \in DlTables
    /\ currentCarouselFiles \in AttLists \ {<<>>}
    /\ currentCarouselIndex \in 0..(Len(currentCarouselFiles) - 1)
    /\ currentCarouselField \in Fields
    /\ carouselOpen = TRUE
    /\ dlPath = "none"
    /\ dlPc = "idle"
    /\ dlField = "none"
    /\ dlIds = {}
    /\ dlWrites = <<>>
    /\ dlToasts = <<>>
    /\ dlStart = dlStored
    /\ dlPrevIds = {}
    /\ currentWarrantyId = BizKey
    /\ globalSwipeEnabled = FALSE
    /\ bodyOverflow = "hidden"
    /\ displayed = currentCarouselFiles[currentCarouselIndex + 1]
    /\ navLog = <<>>
    /\ leftPage = FALSE

\* delete-current-attachment is clicked and the deletion is confirmed
DlCarouselDelete ==
    /\ ~leftPage
    /\ dlPc = "idle"
    /\ currentWarrantyId # NoKey
    /\ currentCarouselField # "none"
    /\ currentCarouselIndex < Len(currentCarouselFiles)
    /\ dlPath' = "carousel"
    /\ dlIds' = {currentCarouselFiles[currentCarouselIndex + 1]}
    /\ dlField' = currentCarouselField
    /\ dlPc' = "reading"
    /\ dlWrites' = <<>>
    /\ dlToasts' = <<>>
    /\ dlStart' = dlStored
    /\ dlPrevIds' = IF dlPath = "none" THEN {} ELSE dlIds
    /\ UNCHANGED <<dlStored, currentCarouselFiles, currentCarouselIndex,
                   currentCarouselField, carouselOpen>>
    /\ UNCHANGED crVars
    /\ UNCHANGED nonDlVars

\* delete-images-btn is clicked with some images checked
DlBulkDelete ==
    /\ ~leftPage
    /\ dlPc = "idle"
    /\ \E ids \in (SUBSET AttIds) \ {{}}, hasKey \in BOOLEAN :
          /\ dlIds' = ids
          /\ IF hasKey
                THEN /\ dlField' = "Picture(s) of Issue"
                     /\ dlPc' = "reading"
                ELSE \* if (!warrantyId) return, for both fields
                     /\ dlField' = "none"
                     /\ dlPc' = "idle"
    /\ dlPath' = "bulk"
    /\ dlWrites' = <<>>
    /\ dlToasts' = <<>>
    /\ dlStart' = dlStored
    /\ dlPrevIds' = IF dlPath = "none" THEN {} ELSE dlIds
    /\ UNCHANGED <<dlStored, currentCarouselFiles, currentCarouselIndex,
                   currentCarouselField, carouselOpen>>
    /\ UNCHANGED crVars
    /\ UNCHANGED nonDlVars

\* fetchCurrentImagesFromAirtable has returned the stored list, or [] on a
\* failed read: the list is filtered and the write is issued or skipped.  The
\* carousel handler reads currentWarrantyId and currentCarouselField again for
\* the write: after a closeCarousel() in between they are null, and
\* updateAirtableRecord ends in its catch without a request.
DlReadDone ==
    /\ dlPc = "reading"
    /\ \E ok \in BOOLEAN :
          LET existing == IF ok THEN dlStored[dlField] ELSE <<>>
              updated == Without(existing, dlIds)
          IN  IF SkipsWrite(dlPath, existing, updated)
                 THEN /\ dlField' = AfterField(dlField)
                      /\ dlPc' = IF AfterField(dlField) = "none" THEN "idle" ELSE "reading"
                      /\ UNCHANGED dlWrites
                 ELSE /\ dlWrites' =
                            Append(dlWrites,
                                   [field |-> IF dlPath = "carousel"
                                                 THEN currentCarouselField ELSE dlField,
                                    keyed |-> dlPath = "bulk" \/ currentWarrantyId # NoKey,
                                    body |-> updated,
                                    read |-> existing])
                      /\ dlPc' = "writing"
                      /\ UNCHANGED dlField
    /\ UNCHANGED <<dlStored, currentCarouselFiles, currentCarouselIndex,
                   currentCarouselField, carouselOpen, dlPath, dlIds, dlToasts,
                   dlStart, dlPrevIds>>
    /\ UNCHANGED crVars
    /\ UNCHANGED nonDlVars

\* updateAirtableRecord has returned, the store having taken the list or not
DlWriteDone ==
    /\ dlPc = "writing"
    /\ \E applied \in BOOLEAN :
          LET w == dlWrites[Len(dlWrites)] IN
          /\ applied => (w.keyed /\ w.field \in Fields)
          /\ dlStored' = IF applied THEN [dlStored EXCEPT ![w.field] = w.body] ELSE dlStored
          /\ IF dlPath = "carousel"
                THEN /\ IF Len(w.body) = 0
                           THEN /\ CloseCarousel
                                /\ UNCHANGED displayed
                           ELSE /\ currentCarouselFiles' = w.body
                                /\ currentCarouselIndex' =
                                      ClampIndex(currentCarouselIndex, Len(w.body))
                                /\ displayed' =
                                      DisplayCarouselItem(w.body,
                                          ClampIndex(currentCarouselIndex, Len(w.body)),
                                          displayed)
                                /\ UNCHANGED <<currentCarouselField, carouselOpen,
                                               currentWarrantyId, globalSwipeEnabled,
                                               bodyOverflow>>
                     /\ navLog' = <<>>
                     /\ dlToasts' = Append(dlToasts, "deleted")
                     /\ dlPc' = "idle"
                     /\ UNCHANGED dlField
                ELSE /\ dlField' = AfterField(dlField)
                     /\ dlPc' = IF AfterField(dlField) = "none" THEN "idle" ELSE "reading"
                     /\ UNCHANGED <<currentCarouselFiles, currentCarouselIndex,
                                    currentCarouselField, carouselOpen, dlToasts,
                                    currentWarrantyId, globalSwipeEnabled, bodyOverflow,
                                    displayed, navLog>>
    /\ UNCHANGED <<dlPath, dlIds, dlWrites, dlStart, dlPrevIds, leftPage>>
    /\ UNCHANGED nonDlVars

NextDelete ==
    \/ DlCarouselDelete
    \/ DlBulkDelete
    \/ DlReadDone
    \/ DlWriteDone

SpecDelete == DlInit /\ [][NextDelete]_vars

(***************************************************************************)
(* The attachment viewer: openCarousel (src/detail.js:288-308),            *)
(* closeCarousel (407-432), nextImage / prevImage (3282-3294) and the      *)
(* page-level swipe (3236-3246), with the carousel's delete handler        *)
(* running beside them.                                                    *)
(***************************************************************************)
dlRestVars == <<dlStored, dlPath, dlPc, dlField, dlIds, dlWrites, dlToasts, dlStart,
                dlPrevIds>>


CrInit ==
    /\ PfIdle
    /\ UlIdle
    /\ RsIdle
    /\ SwIdle
    /\ RrIdle
    /\ FwIdle
    /\ UpIdle
    /\ GdIdle
    /\ TkIdle
    /\ StIdle
    /\ RcIdle
    /\ LkIdle
    /\ dlStored \in DlTables
    /\ currentCarouselFiles = <<>>
    /\ currentCarouselIndex = 0
    /\ currentCarouselField = "none"
    /\ carouselOpen = FALSE
    /\ dlPath = "none"
    /\ dlPc = "idle"
    /\ dlField = "none"
    /\ dlIds = {}
    /\ dlWrites = <<>>
    /\ dlToasts = <<>>
    /\ dlStart = dlStored
    /\ dlPrevIds = {}
    /\ currentWarrantyId = NoKey
    /\ globalSwipeEnabled = TRUE
    /\ bodyOverflow = "auto"
    /\ displayed = 0
    /\ navLog = <<>>
    /\ leftPage = FALSE

\* a preview is clicked: openCarousel(files, fileIndex, getWarrantyId(), fieldName)
CrOpen ==
    /\ ~leftPage
    /\ ~carouselOpen
    /\ \E fs \in ShownLists, f \in Fields :
          \E i \in 0..(Len(fs) - 1) :
              /\ currentCarouselFiles' = fs
              /\ currentCarouselIndex' = i
              /\ currentCarouselField' = f
              \* getWarrantyId() on the page of a record
              /\ currentWarrantyId' = BizKey
              /\ displayed' = DisplayCarouselItem(fs, i, displayed)
    /\ carouselOpen' = TRUE
    /\ globalSwipeEnabled' = FALSE
    /\ bodyOverflow' = "hidden"
    /\ navLog' = <<>>
    /\ IF dlPc = "idle"
          THEN \* a deletion that has ended is no longer followed
               /\ dlPath' = "none"
               /\ dlField' = "none"
               /\ dlIds' = {}
               /\ dlWrites' = <<>>
               /\ dlToasts' = <<>>
               /\ dlStart' = dlStored
               /\ dlPrevIds' = {}
               /\ UNCHANGED <<dlStored, dlPc>>
          ELSE UNCHANGED dlRestVars
    /\ UNCHANGED leftPage
    /\ UNCHANGED nonDlVars

\* nextImage(); the move is logged when asked for
NextImage(logged) ==
    /\ ~leftPage
    /\ IF NavBlocked(currentCarouselFiles)
          THEN UNCHANGED <<currentCarouselIndex, displayed, navLog>>
          ELSE LET n == Len(currentCarouselFiles) IN
               /\ currentCarouselIndex' = NextIndex(currentCarouselIndex, n)
               /\ displayed' = DisplayCarouselItem(currentCarouselFiles,
                                   NextIndex(currentCarouselIndex, n), displayed)
               /\ navLog' = IF logged
                               THEN Push(navLog, [ev |-> "next",
                                                  from |-> currentCarouselIndex])
                               ELSE navLog
    /\ UNCHANGED <<currentCarouselFiles, currentCarouselField, carouselOpen,
                   currentWarrantyId, globalSwipeEnabled, bodyOverflow, leftPage,
                   dlRestVars>>
    /\ UNCHANGED nonDlVars

\* prevImage(); the move is logged when asked for
PrevImage(logged) ==
    /\ ~leftPage
    /\ IF NavBlocked(currentCarouselFiles)
          THEN UNCHANGED <<currentCarouselIndex, displayed, navLog>>
          ELSE LET n == Len(currentCarouselFiles) IN
               /\ currentCarouselIndex' = PrevIndex(currentCarouselIndex, n)
               /\ displayed' = DisplayCarouselItem(currentCarouselFiles,
                                   PrevIndex(currentCarouselIndex, n), displayed)
               /\ navLog' = IF logged
                               THEN Push(navLog, [ev |-> "prev",
                                                  from |-> currentCarouselIndex])
                               ELSE navLog
    /\ UNCHANGED <<currentCarouselFiles, currentCarouselField, carouselOpen,
                   currentWarrantyId, globalSwipeEnabled, bodyOverflow, leftPage,
                   dlRestVars>>
    /\ UNCHANGED nonDlVars

CrNext == NextImage(FALSE)

CrPrev == PrevImage(FALSE)

\* the close button or Escape: closeCarousel()
CrClose ==
    /\ ~leftPage
    /\ carouselOpen
    /\ CloseCarousel
    /\ navLog' = <<>>
    /\ UNCHANGED <<displayed, leftPage, dlRestVars>>
    /\ UNCHANGED nonDlVars

\* a touch ends on the page: handleSwipeGesture()
CrSwipe ==
    /\ ~leftPage
    /\ \E dx \in {SwipeThreshold, SwipeThreshold + 1}, held \in BOOLEAN :
          \* held: there are unsaved changes and the confirm() was cancelled
          IF SwipeIgnored(globalSwipeEnabled)
             THEN UNCHANGED leftPage
             ELSE leftPage' = (dx > SwipeThreshold /\ ~held)
    /\ UNCHANGED <<currentCarouselFiles, currentCarouselIndex, currentCarouselField,
                   carouselOpen, currentWarrantyId, globalSwipeEnabled, bodyOverflow,
                   displayed, navLog, dlRestVars>>
    /\ UNCHANGED nonDlVars

NextCarousel ==
    \/ CrOpen
    \/ CrNext
    \/ CrPrev
    \/ CrClose
    \/ CrSwipe
    \/ DlCarouselDelete
    \/ DlReadDone
    \/ DlWriteDone

SpecCarousel == CrInit /\ [][NextCarousel]_vars

\* the viewer alone, its moves logged
NavNext == NextImage(TRUE)

NavPrev == PrevImage(TRUE)

NextNav ==
    \/ CrOpen
    \/ NavNext
    \/ NavPrev
    \/ CrClose

SpecNav == CrInit /\ [][NextNav]_vars

(***************************************************************************)
(* Two tabs run uploadToDropbox (src/detail.js:2404-2475) on the same      *)
(* field of the same record, each with one file.  The browser is online    *)
(* and the record key resolves, so each batch ends in its PATCH            *)
(* (updateAirtableRecord, src/detail.js:3018-3086).                        *)
(***************************************************************************)
Tabs == {1, 2}

\* what the store may hold when the two batches begin
RcStoredLists == {l \in StoredLists : Len(l) <= 1}

\* the urls the shared links of the new files may have: stored ones and fresh ones
RcUrls == 1..(MaxUrl + 2)

nonRcVars == <<fwVars, upVars, gdVars, tkVars, stVars, dlVars, crVars, lkVars, rrVars, swVars, rsVars, ulVars, pfVars>>

PatchAppliedMerged(held, body) == Merge(held, body)
\* PATCH { fields: { [targetField]: combinedList } }: the field takes the list sent
PatchApplied(held, body) == body

RcInit ==
    /\ PfIdle
    /\ UlIdle
    /\ RsIdle
    /\ SwIdle
    /\ RrIdle
    /\ FwIdle
    /\ UpIdle
    /\ GdIdle
    /\ TkIdle
    /\ StIdle
    /\ DlIdle
    /\ CrIdle
    /\ LkIdle
    /\ rcStored \in RcStoredLists
    /\ rcPc = [t \in Tabs |-> "idle"]
    /\ rcUploaded = [t \in Tabs |-> <<>>]
    /\ rcBody = [t \in Tabs |-> <<>>]
    /\ rcToasts = [t \in Tabs |-> <<>>]
    /\ rcLog = <<>>

\* files are chosen in tab t: existingImages is read, uploadedUrls = [...existingImages]
RcBegin(t) ==
    /\ rcPc[t] = "idle"
    /\ \E o \in FetchOutcomes :
          rcUploaded' = [rcUploaded EXCEPT ![t] = ReadResult(o, rcStored)]
    /\ rcPc' = [rcPc EXCEPT ![t] = "file"]
    /\ UNCHANGED <<rcStored, rcBody, rcToasts, rcLog>>
    /\ UNCHANGED nonRcVars

\* uploadFileToDropbox has returned for the file of tab t: a link, or null
RcFileDone(t) ==
    /\ rcPc[t] = "file"
    /\ \E linked \in BOOLEAN, u \in RcUrls :
          rcUploaded' =
             IF linked
                THEN [rcUploaded EXCEPT
                        ![t] = Append(@, [id |-> NoId, url |-> u, filename |-> t])]
                ELSE rcUploaded
    /\ rcPc' = [rcPc EXCEPT ![t] = "read2"]
    /\ UNCHANGED <<rcStored, rcBody, rcToasts, rcLog>>
    /\ UNCHANGED nonRcVars

\* the re-read of tab t is answered; the merge; the PATCH is issued
RcRead2Done(t) ==
    /\ rcPc[t] = "read2"
    /\ \E o \in FetchOutcomes :
          rcBody' = [rcBody EXCEPT ![t] = Merge(ReadResult(o, rcStored), rcUploaded[t])]
    /\ rcPc' = [rcPc EXCEPT ![t] = "patching"]
    /\ rcLog' = Append(rcLog, [ev |-> "read", tab |-> t, ok |-> TRUE])
    /\ UNCHANGED <<rcStored, rcUploaded, rcToasts>>
    /\ UNCHANGED nonRcVars

\* the PATCH of tab t is answered
RcPatchResponse(t) ==
    /\ rcPc[t] = "patching"
    /\ \E o \in FetchOutcomes :
          /\ rcStored' = IF Ok(o) THEN PatchApplied(rcStored, rcBody[t]) ELSE rcStored
          /\ rcToasts' =
                [rcToasts EXCEPT
                   ![t] = IF Ok(o) THEN Append(@, "record_updated")
                          ELSE IF o.kind = "throw" THEN @
                          ELSE Append(@, "airtable_error")]
          /\ rcLog' = Append(rcLog, [ev |-> "write", tab |-> t, ok |-> Ok(o)])
    /\ rcPc' = [rcPc EXCEPT ![t] = "done"]
    /\ UNCHANGED <<rcUploaded, rcBody>>
    /\ UNCHANGED nonRcVars

NextRace ==
    \/ \E t \in Tabs : RcBegin(t)
    \/ \E t \in Tabs : RcFileDone(t)
    \/ \E t \in Tabs : RcRead2Done(t)
    \/ \E t \in Tabs : RcPatchResponse(t)

SpecRace == RcInit /\ [][NextRace]_vars

(***************************************************************************)
(* The link of one uploaded file: uploadFileToDropbox from the answer of   *)
(* the upload on (src/detail.js:2513-2578), getDropboxSharedLink           *)
(* (2594-2628), getExistingDropboxLink (2735-2765), convertToDirectLink    *)
(* (2767-2772) and the push onto uploadedUrls (2437-2442).                 *)
(***************************************************************************)
MaxLinks == 2

\* a shared url, as far as convertToDirectLink reads it: host and query
Hosts == {"www.dropbox.com", "dropbox.com", "dl.dropboxusercontent.com", "example.org"}
Queries == {"?dl=0", "?dl=1", "?raw=1"}
SharedUrls == [host : Hosts, query : Queries]

\* null
NoUrl == [host |-> "", query |-> ""]

LinkLists == UNION {[1..n -> SharedUrls] : n \in 0..MaxLinks}

nonLkVars == <<fwVars, upVars, gdVars, tkVars, stVars, dlVars, crVars, rcVars, rrVars, swVars, rsVars, ulVars, pfVars>>

\* sharedUrl.includes("dropbox.com")
IncludesDropbox(u) == u.host \in {"www.dropbox.com", "dropbox.com"}

\* sharedUrl.replace("www.dropbox.com", "dl.dropboxusercontent.com")
\*          .replace("?dl=0", "?raw=1") when it includes "dropbox.com"
ConvertToDirectLink(u) ==
    IF IncludesDropbox(u)
       THEN [host |-> IF u.host = "www.dropbox.com"
                         THEN "dl.dropboxusercontent.com" ELSE u.host,
             query |-> IF u.query = "?dl=0" THEN "?raw=1" ELSE u.query]
       ELSE u

IsConflictNever(o) == FALSE
\* response.status === 409
IsConflict(o) == o.kind = "response" /\ o.status = 409

\* uploadFileToDropbox returns r: if (dropboxUrl) uploadedUrls.push({url, filename})
LkReturn(r) ==
    /\ lkResult' = r
    /\ lkAcc' = IF r # NoUrl THEN Append(lkAcc, [url |-> r, filename |-> 1]) ELSE lkAcc
    /\ lkPc' = "done"

LkInit ==
    /\ PfIdle
    /\ UlIdle
    /\ RsIdle
    /\ SwIdle
    /\ RrIdle
    /\ FwIdle
    /\ UpIdle
    /\ GdIdle
    /\ TkIdle
    /\ StIdle
    /\ DlIdle
    /\ CrIdle
    /\ RcIdle
    /\ lkPc = "uploading"
    /\ lkCreate = 0
    /\ lkListed = FALSE
    /\ lkListOk = FALSE
    /\ lkLinks = <<>>
    /\ lkResult = NoUrl
    /\ lkAcc = <<>>

\* the upload request is answered
LkUploadResponse ==
    /\ lkPc = "uploading"
    /\ \E o \in FetchOutcomes :
          IF Ok(o)
             THEN /\ lkPc' = "linking"
                  /\ UNCHANGED <<lkResult, lkAcc>>
             ELSE LkReturn(NoUrl)
    /\ UNCHANGED <<lkCreate, lkListed, lkListOk, lkLinks>>
    /\ UNCHANGED nonLkVars

\* create_shared_link_with_settings is answered
LkCreateResponse ==
    /\ lkPc = "linking"
    /\ \E o \in FetchOutcomes, u \in SharedUrls, parsed \in BOOLEAN :
          /\ lkCreate' = o.status
          /\ IF IsConflict(o)
                THEN /\ lkPc' = "listing"
                     /\ lkListed' = TRUE
                     /\ UNCHANGED <<lkResult, lkAcc>>
                ELSE \* a body that is no JSON throws into the catch: null
                     /\ LkReturn(IF Ok(o) /\ parsed THEN ConvertToDirectLink(u) ELSE NoUrl)
                     /\ UNCHANGED lkListed
    /\ UNCHANGED <<lkListOk, lkLinks>>
    /\ UNCHANGED nonLkVars

\* list_shared_links is answered
LkListResponse ==
    /\ lkPc = "listing"
    /\ \E o \in FetchOutcomes, links \in LinkLists, parsed \in BOOLEAN :
          /\ ~parsed => links = <<>>
          /\ lkListOk' = Ok(o)
          /\ lkLinks' = IF Ok(o) THEN links ELSE <<>>
          /\ LkReturn(IF Ok(o) /\ Len(links) > 0
                         THEN ConvertToDirectLink(links[1]) ELSE NoUrl)
    /\ UNCHANGED <<lkCreate, lkListed>>
    /\ UNCHANGED nonLkVars

NextLink ==
    \/ LkUploadResponse
    \/ LkCreateResponse
    \/ LkListResponse

SpecLink == LkInit /\ [][NextLink]_vars

(***************************************************************************)
(* What a handler re-reads after its write: the save-job handler           *)
(* (src/detail.js:2217-2229), the tail of uploadToDropbox (2483-2489), the *)
(* carousel delete handler (515-520) and the bulk deletion (1985-1989,     *)
(* 2010-2015).  loadImagesForLot issues two reads, one after the other     *)
(* (764-765); fetchAirtableRecord after a save counts as one.              *)
(***************************************************************************)
Handlers == {"save", "upload", "carousel", "bulk"}

\* setTimeout(resolve, 3000) in the save-job handler
SaveGrace == 3000
\* setTimeout(() => refreshImageContainers(), 3000) in uploadToDropbox
UploadGrace == 3000
\* setTimeout(() => refreshImageContainers(), 1000) in the carousel delete handler
CarouselGrace == 1000

\* the delay of the timer a handler sets after its write
Grace(h) ==
    IF h = "save" THEN SaveGrace
    ELSE IF h = "upload" THEN UploadGrace
    ELSE CarouselGrace

\* loadImagesForLot: fetchCurrentImagesFromAirtable for each of the two fields
ReadsOfRefresh == Cardinality(Fields)

nonRrVars == <<fwVars, upVars, gdVars, tkVars, stVars, dlVars, crVars, rcVars, lkVars, swVars, rsVars, ulVars, pfVars>>

\* updateAirtableRecord returns nothing, whether the store took the write or not
Wrote(ok) == [ev |-> "write", by |-> "main", ok |-> ok, ms |-> 0]
Fired(h) == [ev |-> "timer", by |-> "timer", ok |-> TRUE, ms |-> Grace(h)]
\* fetchCurrentImagesFromAirtable gives the list, or the empty list when the read fails
ReadBy(chain, got) == [ev |-> "read", by |-> chain, ok |-> got, ms |-> 0]

\* the bulk handler turns to the second field, then to its own loadImagesForLot
RrAfter(pc) == IF pc = "f1" THEN "f2" ELSE "final"

RrInit ==
    /\ PfIdle
    /\ UlIdle
    /\ RsIdle
    /\ SwIdle
    /\ FwIdle
    /\ UpIdle
    /\ GdIdle
    /\ TkIdle
    /\ StIdle
    /\ DlIdle
    /\ CrIdle
    /\ RcIdle
    /\ LkIdle
    /\ rrHandler = "none"
    /\ rrPc = "none"
    /\ rrBg = 0
    /\ rrTimer = "none"
    /\ rrTm = 0
    /\ rrLog = <<>>

\* a handler is started and issues its write, or turns to its first field
RrStart ==
    /\ rrHandler = "none"
    /\ \E h \in Handlers :
          /\ rrHandler' = h
          /\ rrPc' = IF h = "bulk" THEN "f1" ELSE "write"
    /\ UNCHANGED <<rrBg, rrTimer, rrTm, rrLog>>
    /\ UNCHANGED nonRrVars

\* updateAirtableRecord has returned to the save-job handler: after its first
\* call (2169) the handler collects the inputs and calls it again (2219); after
\* the second the toast, then await new Promise(resolve => setTimeout(resolve, 3000))
RrSaveWritten ==
    /\ rrHandler = "save" /\ rrPc \in {"write", "write2"}
    /\ \E ok \in BOOLEAN : rrLog' = Append(rrLog, Wrote(ok))
    /\ rrTimer' = IF rrPc = "write" THEN rrTimer ELSE "armed"
    /\ rrPc' = IF rrPc = "write" THEN "write2" ELSE "wait"
    /\ UNCHANGED <<rrHandler, rrBg, rrTm>>
    /\ UNCHANGED nonRrVars

\* updateAirtableRecord has returned to uploadToDropbox: refreshImageContainers()
\* is called and not awaited, its first read is issued, the timer is set
RrUploadWritten ==
    /\ rrHandler = "upload" /\ rrPc = "write"
    /\ \E ok, got \in BOOLEAN : rrLog' = rrLog \o <<Wrote(ok), ReadBy("bg", got)>>
    /\ rrBg' = ReadsOfRefresh - 1
    /\ rrTimer' = "armed"
    /\ rrPc' = "done"
    /\ UNCHANGED <<rrHandler, rrTm>>
    /\ UNCHANGED nonRrVars

\* updateAirtableRecord has returned to the carousel delete handler: the
\* working set, the toast, the timer
RrCarouselWritten ==
    /\ rrHandler = "carousel" /\ rrPc = "write"
    /\ \E ok \in BOOLEAN : rrLog' = Append(rrLog, Wrote(ok))
    /\ rrTimer' = "armed"
    /\ rrPc' = "done"
    /\ UNCHANGED <<rrHandler, rrBg, rrTm>>
    /\ UNCHANGED nonRrVars

\* deleteImagesByLotName for one field: it returns without a write, or writes
\* and calls loadImagesForLot, whose first read is issued
RrBulkField ==
    /\ rrHandler = "bulk" /\ rrPc \in {"f1", "f2"}
    /\ \E writes \in BOOLEAN :
          IF writes
             THEN /\ \E ok, got \in BOOLEAN : rrLog' = rrLog \o <<Wrote(ok), ReadBy("main", got)>>
                  /\ rrBg' = ReadsOfRefresh - 1
                  /\ rrPc' = IF rrPc = "f1" THEN "f1_load" ELSE "f2_load"
             ELSE /\ rrPc' = RrAfter(rrPc)
                  /\ IF RrAfter(rrPc) = "final"
                        THEN /\ \E got \in BOOLEAN : rrLog' = Append(rrLog, ReadBy("main", got))
                             /\ rrBg' = ReadsOfRefresh - 1
                        ELSE UNCHANGED <<rrLog, rrBg>>
    /\ UNCHANGED <<rrHandler, rrTimer, rrTm>>
    /\ UNCHANGED nonRrVars

\* a read of an awaited loadImagesForLot is answered: the next read is issued,
\* or loadImagesForLot returns and the bulk handler goes on
RrBulkRead ==
    /\ rrHandler = "bulk" /\ rrPc \in {"f1_load", "f2_load", "final"}
    /\ IF rrBg > 0
          THEN /\ \E got \in BOOLEAN : rrLog' = Append(rrLog, ReadBy("main", got))
               /\ rrBg' = rrBg - 1
               /\ UNCHANGED rrPc
          ELSE IF rrPc = "final"
          THEN /\ rrPc' = "done"
               /\ UNCHANGED <<rrLog, rrBg>>
          ELSE IF rrPc = "f1_load"
          THEN /\ rrPc' = "f2"
               /\ UNCHANGED <<rrLog, rrBg>>
          ELSE \* the handler's own loadImagesForLot
               /\ rrPc' = "final"
               /\ \E got \in BOOLEAN : rrLog' = Append(rrLog, ReadBy("main", got))
               /\ rrBg' = ReadsOfRefresh - 1
    /\ UNCHANGED <<rrHandler, rrTimer, rrTm>>
    /\ UNCHANGED nonRrVars

\* a read of the refresh that is not awaited is answered: its next read is issued
RrBgRead ==
    /\ rrHandler = "upload" /\ rrBg > 0
    /\ \E got \in BOOLEAN : rrLog' = Append(rrLog, ReadBy("bg", got))
    /\ rrBg' = rrBg - 1
    /\ UNCHANGED <<rrHandler, rrPc, rrTimer, rrTm>>
    /\ UNCHANGED nonRrVars

\* the timer fires: the save-job handler calls fetchAirtableRecord, the other
\* two call refreshImageContainers
RrTimerFires ==
    /\ rrTimer = "armed"
    /\ rrTimer' = "fired"
    /\ \E got \in BOOLEAN : rrLog' = rrLog \o <<Fired(rrHandler), ReadBy("timer", got)>>
    /\ rrTm' = IF rrHandler = "save" THEN 0 ELSE ReadsOfRefresh - 1
    /\ rrPc' = IF rrHandler = "save" THEN "done" ELSE rrPc
    /\ UNCHANGED <<rrHandler, rrBg>>
    /\ UNCHANGED nonRrVars

\* a read of the refresh the timer started is answered: its next read is issued
RrTimerRead ==
    /\ rrTm > 0
    /\ \E got \in BOOLEAN : rrLog' = Append(rrLog, ReadBy("timer", got))
    /\ rrTm' = rrTm - 1
    /\ UNCHANGED <<rrHandler, rrPc, rrBg, rrTimer>>
    /\ UNCHANGED nonRrVars

\* everything the handler caused has been issued; the next handler may start
RrSettle ==
    /\ rrHandler # "none" /\ rrPc = "done" /\ rrBg = 0 /\ rrTm = 0 /\ rrTimer # "armed"
    /\ rrHandler' = "none"
    /\ rrPc' = "none"
    /\ rrTimer' = "none"
    /\ rrLog' = <<>>
    /\ UNCHANGED <<rrBg, rrTm>>
    /\ UNCHANGED nonRrVars

NextReread ==
    \/ RrStart
    \/ RrSaveWritten
    \/ RrUploadWritten
    \/ RrCarouselWritten
    \/ RrBulkField
    \/ RrBulkRead
    \/ RrBgRead
    \/ RrTimerFires
    \/ RrTimerRead
    \/ RrSettle

SpecReread == RrInit /\ [][NextReread]_vars

(***************************************************************************)
(* The touch gesture in the viewer: addCarouselSwipeHandlers               *)
(* (src/detail.js:208-243).  The browser delivers touchstart, touchmove    *)
(* and touchend with the positions of the fingers; the handlers keep       *)
(* startX, startY and touchMoved between the events.                       *)
(***************************************************************************)
\* Math.abs(diffX) > 10 in touchmove
MoveThreshold == 10
\* Math.abs(diffX) > 40 in touchend
DragThreshold == 40
\* the fingers the model puts on the viewer
MaxFingers == 2

\* clientX and clientY of a touch
Coords == {0, 15, 50, 100}
Points == Coords \X Coords

Abs(n) == IF n < 0 THEN 0 - n ELSE n

\* touchmove: Math.abs(diffX) > Math.abs(diffY) && Math.abs(diffX) > 10
HorizontalMove(diffX, diffY) == Abs(diffX) > Abs(diffY) /\ Abs(diffX) > MoveThreshold

\* touchend: if (Math.abs(diffX) > 40) diffX > 0 ? prevImage() : nextImage()
SwipeCall(diffX) ==
    IF Abs(diffX) > DragThreshold
       THEN IF diffX > 0 THEN "prev" ELSE "next"
       ELSE "none"

nonSwVars == <<fwVars, upVars, gdVars, tkVars, stVars, dlVars, crVars, rcVars, lkVars, rrVars, rsVars, ulVars, pfVars>>

SwInit ==
    /\ PfIdle
    /\ UlIdle
    /\ RsIdle
    /\ FwIdle
    /\ UpIdle
    /\ GdIdle
    /\ TkIdle
    /\ StIdle
    /\ DlIdle
    /\ CrIdle
    /\ RcIdle
    /\ LkIdle
    /\ RrIdle
    /\ swStart = <<0, 0>>
    /\ swMoved = FALSE
    /\ swFingers = 0
    /\ swRel = <<0, 0>>
    /\ swNav = "none"

\* touchstart: a finger comes down at p; with one touch on the viewer the start
\* point is taken and touchMoved is cleared
SwTouchStart ==
    /\ swFingers < MaxFingers
    /\ swFingers' = swFingers + 1
    /\ \E p \in Points :
          IF swFingers + 1 = 1
             THEN /\ swStart' = p
                  /\ swMoved' = FALSE
             ELSE UNCHANGED <<swStart, swMoved>>
    /\ UNCHANGED <<swRel, swNav>>
    /\ UNCHANGED nonSwVars

\* touchmove: the first touch is at p
SwTouchMove ==
    /\ swFingers >= 1
    /\ \E p \in Points :
          IF swFingers # 1
             THEN UNCHANGED swMoved
             ELSE swMoved' = (swMoved \/ HorizontalMove(p[1] - swStart[1], p[2] - swStart[2]))
    /\ UNCHANGED <<swStart, swFingers, swRel, swNav>>
    /\ UNCHANGED nonSwVars

\* touchend: changed fingers are lifted, the first of them at p
SwTouchEnd ==
    /\ swFingers >= 1
    /\ \E changed \in 1..swFingers, p \in Points :
          /\ swFingers' = swFingers - changed
          /\ swRel' = <<p[1] - swStart[1], p[2] - swStart[2]>>
          /\ swNav' = IF ~swMoved \/ changed # 1
                         THEN "none"
                         ELSE SwipeCall(p[1] - swStart[1])
    /\ UNCHANGED <<swStart, swMoved>>
    /\ UNCHANGED nonSwVars

NextSwipe ==
    \/ SwTouchStart
    \/ SwTouchMove
    \/ SwTouchEnd

SpecSwipe == SwInit /\ [][NextSwipe]_vars

(***************************************************************************)
(* The calls of a handler that take the key of getWarrantyId():            *)
(* fetchAirtableRecord (src/detail.js:1531-1571) and updateAirtableRecord  *)
(* (3018-3086) each test the key they are given and look the record id up  *)
(* by getRecordIdByWarrantyId (883-903) when it is not one.                *)
(***************************************************************************)
\* the calls of one chain, in the order the handler makes them: the save-job
\* handler (2117, 2169, 2219, 2229), uploadToDropbox (2468), the carousel delete
\* handler (502), the bulk deletion (1985, 1986 -> 2010)
CallsOf(chain) ==
    IF chain = "save" THEN <<"fetch", "update", "update", "fetch">>
    ELSE IF chain = "bulk" THEN <<"update", "update">>
    ELSE <<"update">>

\* the keys a handler holds: a business key or a record id
HeldKeys == {BizKey, RecA}

nonRsVars == <<fwVars, upVars, gdVars, tkVars, stVars, dlVars, crVars, rcVars, lkVars, rrVars, swVars, ulVars, pfVars>>

RsInit ==
    /\ PfIdle
    /\ UlIdle
    /\ FwIdle
    /\ UpIdle
    /\ GdIdle
    /\ TkIdle
    /\ StIdle
    /\ DlIdle
    /\ CrIdle
    /\ RcIdle
    /\ LkIdle
    /\ RrIdle
    /\ SwIdle
    /\ rsChain = "none"
    /\ rsKey = <<>>
    /\ rsPc = 0
    /\ rsPhase = "none"
    /\ rsId = <<>>
    /\ rsLog = <<>>

\* a handler starts with the key of getWarrantyId()
RsStart ==
    /\ rsChain = "none"
    /\ \E h \in Handlers, k \in HeldKeys :
          /\ rsChain' = h
          /\ rsKey' = k
    /\ rsPc' = 1
    /\ rsPhase' = "call"
    /\ UNCHANGED <<rsId, rsLog>>
    /\ UNCHANGED nonRsVars

\* the call at rsPc is made: it looks the record id up when the key is not one;
\* deleteImagesByLotName returns before its call when the field loses nothing
RsCall ==
    /\ rsChain # "none" /\ rsPhase = "call" /\ rsPc <= Len(CallsOf(rsChain))
    /\ \E skipped \in {FALSE, rsChain = "bulk"} :
          IF skipped
             THEN /\ rsPc' = rsPc + 1
                  /\ UNCHANGED <<rsPhase, rsId, rsLog>>
             ELSE IF NeedsLookup(rsKey)
             THEN /\ rsPhase' = "lookup"
                  /\ rsLog' = Append(rsLog, [ev |-> "lookup", call |-> rsPc, id |-> rsKey])
                  /\ UNCHANGED <<rsPc, rsId>>
             ELSE /\ rsPhase' = "request"
                  /\ rsId' = rsKey
                  /\ rsLog' = Append(rsLog, [ev |-> CallsOf(rsChain)[rsPc], call |-> rsPc, id |-> rsKey])
                  /\ UNCHANGED rsPc
    /\ UNCHANGED <<rsChain, rsKey>>
    /\ UNCHANGED nonRsVars

\* getRecordIdByWarrantyId answers: the id of the first record the store matched
\* (data.records[0].id), and the request is sent to it, or null, and the call
\* returns
RsLookupAnswer ==
    /\ rsPhase = "lookup"
    /\ \E r \in {RecA, RecB, NoKey} :
          IF r # NoKey
             THEN /\ rsId' = r
                  /\ rsPhase' = "request"
                  /\ rsLog' = Append(rsLog, [ev |-> CallsOf(rsChain)[rsPc], call |-> rsPc, id |-> r])
                  /\ UNCHANGED rsPc
             ELSE /\ rsPhase' = "call"
                  /\ rsPc' = rsPc + 1
                  /\ UNCHANGED <<rsId, rsLog>>
    /\ UNCHANGED <<rsChain, rsKey>>
    /\ UNCHANGED nonRsVars

\* the request is answered; the handler goes on whatever the answer
RsRequestAnswer ==
    /\ rsPhase = "request"
    /\ rsPhase' = "call"
    /\ rsPc' = rsPc + 1
    /\ rsId' = <<>>
    /\ UNCHANGED <<rsChain, rsKey, rsLog>>
    /\ UNCHANGED nonRsVars

\* the handler has made its calls; the next one may start
RsEnd ==
    /\ rsChain # "none" /\ rsPhase = "call" /\ rsPc > Len(CallsOf(rsChain))
    /\ rsChain' = "none"
    /\ rsKey' = <<>>
    /\ rsPc' = 0
    /\ rsPhase' = "none"
    /\ rsLog' = <<>>
    /\ UNCHANGED rsId
    /\ UNCHANGED nonRsVars

NextResolve ==
    \/ RsStart
    \/ RsCall
    \/ RsLookupAnswer
    \/ RsRequestAnswer
    \/ RsEnd

SpecResolve == RsInit /\ [][NextResolve]_vars

(***************************************************************************)
(* One file through uploadFileToDropbox (src/detail.js:2513-2578), its     *)
(* upload request made by fetchWithRetry with the default maxRetries.      *)
(***************************************************************************)
\* if (attempt <= 5) in the 429 branch of uploadFileToDropbox
UploadMaxAttempt == 5

\* if (response.status === 429) in uploadFileToDropbox
UploadRateLimited(status) == status = RateLimitStatus

nonFwUlVars == <<upVars, gdVars, tkVars, stVars, dlVars, crVars, rcVars, lkVars, rrVars, swVars, rsVars, pfVars>>

UlInit ==
    /\ PfIdle
    /\ UpIdle
    /\ GdIdle
    /\ TkIdle
    /\ StIdle
    /\ DlIdle
    /\ CrIdle
    /\ RcIdle
    /\ LkIdle
    /\ RrIdle
    /\ SwIdle
    /\ RsIdle
    /\ fwPc = "loop"
    /\ maxRetries = DefaultMaxRetries
    /\ attempt = 0
    /\ delay = BaseDelay
    /\ requests = 0
    /\ answers = <<>>
    /\ waits = <<>>
    /\ rejects = 0
    /\ response = 0
    /\ ulPc = "upload"
    /\ ulAttempt = 0
    /\ ulExpiries = 0
    /\ ulTotal = 0
    /\ ulTaken = FALSE

\* uploadFileToDropbox calls itself: a new call of fetchWithRetry
UlRecurse ==
    /\ fwPc' = "loop"
    /\ attempt' = 0
    /\ delay' = BaseDelay
    /\ requests' = 0
    /\ answers' = <<>>
    /\ waits' = <<>>
    /\ rejects' = 0
    /\ response' = 0
    /\ ulTotal' = ulTotal + requests
    /\ UNCHANGED maxRetries

\* uploadFileToDropbox returns (a link or null)
UlReturn ==
    /\ ulPc' = "done"
    /\ UNCHANGED <<ulAttempt, ulExpiries, ulTotal, ulTaken>>
    /\ UNCHANGED fwVars

\* fetchWithRetry has returned a response to uploadFileToDropbox
UlResponse ==
    /\ ulPc = "upload" /\ fwPc = "returned"
    /\ IF UploadRateLimited(response)
          THEN /\ ulTaken' = TRUE
               /\ IF ulAttempt <= UploadMaxAttempt
                     THEN /\ UlRecurse
                          /\ ulAttempt' = ulAttempt + 1
                          /\ UNCHANGED <<ulPc, ulExpiries>>
                     ELSE /\ ulPc' = "done"
                          /\ UNCHANGED <<ulAttempt, ulExpiries, ulTotal>>
                          /\ UNCHANGED fwVars
          ELSE IF response >= 200 /\ response <= 299
          THEN UlReturn
          ELSE \E expired \in {FALSE, response = 401 /\ ulExpiries < MaxExpiries},
                  newToken \in BOOLEAN :
                  IF expired /\ newToken
                     THEN /\ UlRecurse
                          /\ ulAttempt' = 0
                          /\ ulExpiries' = ulExpiries + 1
                          /\ UNCHANGED <<ulPc, ulTaken>>
                     ELSE UlReturn
    /\ UNCHANGED nonFwUlVars

\* fetchWithRetry has thrown: catch (error) { return null }
UlCaught ==
    /\ ulPc = "upload" /\ fwPc \in {"thrown", AfterReject}
    /\ UlReturn
    /\ UNCHANGED nonFwUlVars

NextUploadRetry ==
    \/ NextRetry
    \/ UlResponse
    \/ UlCaught

SpecUploadRetry == UlInit /\ [][NextUploadRetry]_vars

(***************************************************************************)
(* The field map of an attachment write: the callers pass one attachment   *)
(* field (src/detail.js:502-504, 2010-2012, 2468-2470) and                 *)
(* updateAirtableRecord builds the body of its PATCH from it (3040-3062).  *)
(***************************************************************************)
\* option.value = vendor.id: record ids of the vendor table
VendorIds == {<<"r", "e", "c", "V">>, <<"r", "e", "c", "W">>}
\* the vendor dropdown: nothing chosen, or a vendor
DropdownValues == {<<>>} \cup VendorIds

\* if (selectedVendorId && selectedVendorId.startsWith("rec"))
\*     fields["Material Vendor"] = [selectedVendorId]
WithVendor(fields, selectedVendorId) ==
    IF selectedVendorId # <<>> /\ StartsWithRec(selectedVendorId)
       THEN {e \in fields : e[1] # "Material Vendor"}
               \cup {<<"Material Vendor", selectedVendorId>>}
       ELSE fields

\* Object.entries(fields).filter(([key]) => key !== "Warranty Record ID")
SanitizedFields(fields) == {e \in fields : e[1] # "Warranty Record ID"}

\* the list the caller has computed for its field
NewList == <<"l", "i", "s", "t">>

\* { fields: sanitizedFields } for the caller's { [field]: list }, as the set of
\* its entries
PatchFieldsOf(target, selectedVendorId) ==
    SanitizedFields(WithVendor({<<target, NewList>>}, selectedVendorId))

\* the names of the fields of a field map
FieldNames(fields) == {e[1] : e \in fields}

nonPfVars == <<fwVars, upVars, gdVars, tkVars, stVars, dlVars, crVars, rcVars, lkVars, rrVars, swVars, rsVars, ulVars>>

PfInit ==
    /\ FwIdle
    /\ UpIdle
    /\ GdIdle
    /\ TkIdle
    /\ StIdle
    /\ DlIdle
    /\ CrIdle
    /\ RcIdle
    /\ LkIdle
    /\ RrIdle
    /\ SwIdle
    /\ RsIdle
    /\ UlIdle
    /\ pfVendor \in DropdownValues
    /\ pfPc = "idle"
    /\ pfKey = <<>>
    /\ pfTarget = "none"
    /\ pfBody = {}
    /\ pfStored \in DropdownValues

\* the user chooses in the vendor dropdown
PfChooseVendor ==
    /\ pfPc # "none"
    /\ \E v \in DropdownValues : v # pfVendor /\ pfVendor' = v
    /\ UNCHANGED <<pfPc, pfKey, pfTarget, pfBody, pfStored>>
    /\ UNCHANGED nonPfVars

\* an upload batch or a deletion calls updateAirtableRecord(table, key,
\* { [field]: list })
PfCallWrite ==
    /\ pfPc \in {"idle", "done"}
    /\ \E k \in HeldKeys, f \in Fields, online \in BOOLEAN :
          /\ pfKey' = k
          /\ pfTarget' = f
          /\ IF ~online
                THEN /\ pfPc' = "done"
                     /\ pfBody' = {}
             ELSE IF NeedsLookup(k)
                THEN /\ pfPc' = "resolving"
                     /\ pfBody' = {}
             ELSE /\ pfPc' = "patching"
                  /\ pfBody' = PatchFieldsOf(f, pfVendor)
    /\ UNCHANGED <<pfVendor, pfStored>>
    /\ UNCHANGED nonPfVars

\* getRecordIdByWarrantyId has returned: null ends the call, a record id lets
\* it read the dropdown and send the PATCH
PfResolved ==
    /\ pfPc = "resolving"
    /\ \E found \in BOOLEAN :
          IF found
             THEN /\ pfPc' = "patching"
                  /\ pfBody' = PatchFieldsOf(pfTarget, pfVendor)
             ELSE /\ pfPc' = "done"
                  /\ UNCHANGED pfBody
    /\ UNCHANGED <<pfVendor, pfKey, pfTarget, pfStored>>
    /\ UNCHANGED nonPfVars

\* the PATCH has settled: when the store accepts it, it sets every field the
\* body names
PfPatchResponse ==
    /\ pfPc = "patching"
    /\ pfPc' = "done"
    /\ \E accepted \in BOOLEAN :
          pfStored' = IF accepted /\ "Material Vendor" \in FieldNames(pfBody)
                         THEN (CHOOSE e \in pfBody : e[1] = "Material Vendor")[2]
                         ELSE pfStored
    /\ UNCHANGED <<pfVendor, pfKey, pfTarget, pfBody>>
    /\ UNCHANGED nonPfVars

NextFields ==
    \/ PfChooseVendor
    \/ PfCallWrite
    \/ PfResolved
    \/ PfPatchResponse

SpecFields == PfInit /\ [][NextFields]_vars

(***************************************************************************)
(* Helpers of the properties                                               *)
(***************************************************************************)
RECURSIVE SumSeq(_)
SumSeq(s) == IF s = <<>> THEN 0 ELSE Head(s) + SumSeq(Tail(s))

RECURSIVE Pow2(_)
Pow2(n) == IF n = 0 THEN 1 ELSE 2 * Pow2(n - 1)

AllRateLimited(s) == \A i \in 1..Len(s) : s[i] = RateLimitStatus

\* C1: when every attempt is answered 429 the call throws, after exactly
\* maxRetries requests: never more are issued, and it throws with no fewer.
C1_ExhaustedThrowsAfterBound ==
    /\ requests <= maxRetries
    /\ (AllRateLimited(answers) /\ Len(answers) >= maxRetries /\ rejects = 0) =>
          /\ requests = maxRetries
          /\ fwPc \in {"sleep", "loop", "thrown"}
          /\ (fwPc = "loop" => attempt >= maxRetries)
    /\ fwPc = "thrown" =>
          /\ requests = maxRetries
          /\ Len(answers) = maxRetries
          /\ AllRateLimited(answers)

C1_Witness ==
    fwPc = "thrown" /\ maxRetries = DefaultMaxRetries /\ requests = DefaultMaxRetries

\* C2: k answers of 429 followed by another status, k < maxRetries: the call
\* returns that status after k+1 requests, having waited 500, 1000, ...,
\* 500*2^(k-1) ms, in total 500*(2^k - 1) ms.
C2_BackoffSeries ==
    fwPc = "returned" =>
        LET k == Len(answers) - 1 IN
        /\ k >= 0 /\ k < maxRetries
        /\ AllRateLimited(SubSeq(answers, 1, k))
        /\ response = answers[k + 1]
        /\ requests = k + 1
        /\ waits = [i \in 1..k |-> BaseDelay * Pow2(i - 1)]
        /\ SumSeq(waits) = BaseDelay * (Pow2(k) - 1)

C2_Witness ==
    fwPc = "returned" /\ Len(answers) = 4 /\ SumSeq(waits) = 3500

\* C3: the first answer whose status is not 429 ends the call and is the
\* response handed to the caller, success or error alike; no request and no
\* delay follows it.
C3_FirstNon429Returned ==
    /\ \A i \in 1..Len(answers) :
          ~(answers[i] = RateLimitStatus) =>
              /\ i = Len(answers)
              /\ fwPc = "returned"
              /\ response = answers[i]
              /\ requests = i
              /\ Len(waits) = i - 1
    /\ fwPc = "returned" => ~ENABLED NextRetry

C3_Witness ==
    fwPc = "returned" /\ response = 500 /\ Len(answers) = 3

\* C4 as claimed: a rejected fetch is retried until the attempt bound is
\* reached, and only then surfaced.
C4_RejectRetriedToBound ==
    fwPc = "rejected" => requests = maxRetries

\* C4 amended: a rejected fetch is not retried: the rejection leaves
\* fetchWithRetry at once, the rejected request being the last one issued and
\* no delay being waited for it.
C4_RejectSurfacedAtOnce ==
    rejects > 0 =>
        /\ rejects = 1
        /\ fwPc = "rejected"
        /\ requests = Len(answers) + 1
        /\ Len(waits) = Len(answers)
        /\ ~ENABLED NextRetry

C4_Witness ==
    fwPc = "rejected" /\ requests = 1 /\ maxRetries = DefaultMaxRetries

NoDupUrl(l) == \A i, j \in 1..Len(l) : l[i].url = l[j].url => i = j

IdsOf(l) == {l[i].id : i \in 1..Len(l)} \ {NoId}

InList(l, a) == \E i \in 1..Len(l) : l[i] = a

\* the entries uploaded in this batch: those the loop pushed, which carry no id
NewEntries == {uploadedUrls[i] : i \in {j \in 1..Len(uploadedUrls) : uploadedUrls[j].id = NoId}}

FilesIn(st) == {i \in 1..Len(fileState) : fileState[i] = st}

NumToasts(tag) == Cardinality({i \in 1..Len(toasts) : toasts[i] = tag})

\* C5 as claimed: for every re-read list L the list written back has no two
\* entries with the same url and holds every id of L.
C5_WrittenNoDupUrlKeepsIds ==
    patches = 1 =>
        /\ NoDupUrl(patchBody)
        /\ IdsOf(latestFromAirtable) \subseteq IdsOf(patchBody)

\* C5 amended: the list written back holds every id of the re-read list L
\* (L is its prefix), and has no two entries with the same url provided L
\* itself has none.
C5_WrittenKeepsIdsNoNewDup ==
    patches = 1 =>
        /\ IdsOf(latestFromAirtable) \subseteq IdsOf(patchBody)
        /\ Len(patchBody) >= Len(latestFromAirtable)
        /\ SubSeq(patchBody, 1, Len(latestFromAirtable)) = latestFromAirtable
        /\ NoDupUrl(latestFromAirtable) => NoDupUrl(patchBody)

C5_Witness ==
    /\ patches = 1
    /\ Len(latestFromAirtable) = 2
    /\ NoDupUrl(latestFromAirtable)
    /\ Len(patchBody) = 2
    /\ Cardinality(NewEntries) >= 1

\* C6: with no deletion running, every attachment stored before the batch
\* is still stored when the batch has finished, whatever its reads returned.
C6_UploadKeepsStored ==
    upPc = "done" =>
        \A i \in 1..Len(storedAtStart) : InList(stored, storedAtStart[i])

\* C7: in a batch of several files of which some fail, the batch is not
\* aborted, every file whose upload succeeded has its url in the list
\* written, and one failure notification is emitted per failed file.
C7_FailuresNotified ==
    (upPc = "done" /\ writeOutcome = "patched" /\ Len(files) >= 2
        /\ FilesIn("failed") # {} /\ FilesIn("ok") # {}) =>
        /\ FilesIn("pending") = {}
        /\ \A e \in NewEntries : HasUrl(patchBody, e.url)
        /\ NumToasts("upload_failed") = Cardinality(FilesIn("failed"))

\* C8 as claimed: where a newly uploaded entry and an entry of the re-read
\* list have the same url, the list written holds the new entry and not the
\* stored one.
C8_NewEntryWins ==
    patches = 1 =>
        \A e \in NewEntries : \A i \in 1..Len(latestFromAirtable) :
            latestFromAirtable[i].url = e.url =>
                /\ InList(patchBody, e)
                /\ ~InList(patchBody, latestFromAirtable[i])

\* C8 amended: where a newly uploaded entry and an entry of the re-read list
\* have the same url, the list written holds the stored entry and not the
\* new one (stored entries win).
C8_StoredEntryWins ==
    patches = 1 =>
        \A e \in NewEntries : \A i \in 1..Len(latestFromAirtable) :
            latestFromAirtable[i].url = e.url =>
                /\ InList(patchBody, latestFromAirtable[i])
                /\ ~InList(patchBody, e)

C8_Witness ==
    /\ patches = 1
    /\ \E e \in NewEntries : HasUrl(latestFromAirtable, e.url)
    /\ \E e \in NewEntries : ~HasUrl(latestFromAirtable, e.url)

\* C9: files are processed one after the other: at most one blob-store
\* request of the batch is in flight, it belongs to the current file, and a
\* file is not started before its predecessor has succeeded or failed.
C9_StrictlySequential ==
    /\ Cardinality(inFlight) <= 1
    /\ \A r \in inFlight : r.file = idx
    /\ \A i \in 1..Len(fileState) :
          (i > 1 /\ fileState[i] # "pending") => fileState[i - 1] \in {"ok", "failed"}

C9_Witness ==
    /\ idx = 2
    /\ inFlight = {Req(2, "upload")}
    /\ fileState[1] = "ok"

\* C10 as claimed: a batch issues exactly one PATCH.
C10_ExactlyOnePatch ==
    (upPc = "done" /\ readsDone = 2) => patches = 1

\* C10 amended: a batch issues at most one PATCH, and exactly one when the
\* browser is online and the record identifier is present and resolves; the
\* PATCH is issued only after every file has been attempted and after the
\* re-read, whatever the number of files.
C10_OnePatchAfterAllFiles ==
    /\ patches <= 1
    /\ patches = 1 =>
          /\ readsDone = 2
          /\ \A i \in 1..Len(fileState) : fileState[i] \in {"ok", "failed"}
          /\ patchBody = combinedList
    /\ (upPc = "done" /\ readsDone = 2) =>
          (patches = 1 <=> writeOutcome \notin {"offline", "nokey", "unresolved"})

C10_Witness ==
    /\ upPc = "patching"
    /\ patches = 1
    /\ Len(files) = 2
    /\ FilesIn("ok") # {} /\ FilesIn("failed") # {}

\* C13: when no access token can be obtained the upload handler issues no
\* blob-store request (no file is touched, nothing is read or written),
\* emits the one error notification and ends without trying again.
C13_NoTokenNoUpload ==
    dropboxAccessToken = 0 =>
        /\ inFlight = {}
        /\ FilesIn("pending") = DOMAIN fileState
        /\ readsDone = 0 /\ patches = 0 /\ refreshes = 0
        /\ ~uploadInProgress
        /\ upPc \in {"idle", "ensure", "done"}
        /\ upPc = "done" => (toasts = <<"auth_failed">> /\ ~ENABLED NextUpload)

C13_Witness ==
    upPc = "done" /\ dropboxAccessToken = 0 /\ toasts = <<"auth_failed">>
        /\ Len(files) = 2

\* C11: the unload guard is active in every state in which a batch of either
\* input has started and not yet finished its write-back, and inactive when
\* no batch is running.
C11_GuardWhileAnyBatchRuns ==
    GuardActive <=> (\E b \in Inputs : batchPc[b] \in Running)

\* C12: an upload answered with an expired token is refreshed and retried once;
\* when the retried upload is answered with an expired token again the call
\* ends with null, without another refresh and without a third request.
C12_OneRefreshOneRetry ==
    tkCall = "upload" =>
        /\ tkUploads <= 2
        /\ expiries >= 2 => (tkPc = "idle" /\ tkResult = 0 /\ tkStack = <<>>)

\* C14: a finished fetchDropboxToken has returned null whenever the credential
\* record lacks the app key or the app secret, a token in the record
\* notwithstanding, and whenever the record could not be read; it always
\* returns a value (null or a token), it never throws.
C14_NullWithoutKeyOrSecret ==
    (tkCall = "fetch" /\ tkPc = "idle") =>
        /\ tkResult \in 0..MaxTok
        /\ (rec.appKey = 0 \/ rec.appSecret = 0 \/ fRead \in {"failed", "norecord"})
              => tkResult = 0

C14_Witness ==
    /\ tkCall = "fetch" /\ tkPc = "idle"
    /\ fRead = "read" /\ rec.token # 0 /\ rec.appKey = 0 /\ rec.appSecret # 0
    /\ tkResult = 0

Issued(what) == {i \in 1..Len(stRequests) : stRequests[i].what = what}

\* C16: fetchCurrentImagesFromAirtable returns the empty list, and does not
\* throw, on every failed read: a missing key (no request is made), a status
\* that is not OK, exhausted retries or a rejected fetch, a body that cannot
\* be read, no matching record, a record without the field.
C16_ReadFailureGivesEmpty ==
    (stOp = "read" /\ stPc = "idle") =>
        /\ ~stResult.threw
        /\ KeyMissing(stKey) => (stRequests = <<>> /\ stResult.val = <<>>)
        /\ (\/ stAnswer.kind = "throw"
            \/ ~Ok(stAnswer)
            \/ stAnswer.body = "garbage"
            \/ Len(stRecs) = 0
            \/ (Len(stRecs) > 0 /\ stRecs[1].images = <<>>)) => stResult.val = <<>>

C16_Witness ==
    /\ stOp = "read" /\ stPc = "idle" /\ stKey = BizKey
    /\ stAnswer.kind = "throw" /\ Len(stRecs) > 0 /\ stRecs[1].images # <<>>
    /\ stResult = [threw |-> FALSE, val |-> <<>>]

\* C17: every PATCH of updateAirtableRecord is addressed by a key starting
\* with "rec": a key without that prefix is looked up first and the PATCH goes
\* to the first match's id, a lookup that returns null ends the call without
\* a PATCH, and a key with the prefix is used unchanged and without a lookup.
C17_PatchOnlyByRecordId ==
    stOp = "write" =>
        /\ \A i \in Issued("patch") : StartsWithRec(stRequests[i].addr)
        /\ StartsWithRec(stKey) =>
              /\ Issued("lookup") = {}
              /\ \A i \in Issued("patch") : stRequests[i].addr = stKey
        /\ ~StartsWithRec(stKey) =>
              \A i \in Issued("patch") :
                  /\ i = 2
                  /\ stRequests[1] = [what |-> "lookup", addr |-> stKey]
                  /\ Len(stRecs) > 0 /\ stRequests[i].addr = stRecs[1].id
        /\ (stPc = "idle" /\ Issued("lookup") # {} /\ stResolved = NoKey) =>
              Issued("patch") = {}

C17_Witness ==
    /\ stOp = "write" /\ stPc = "idle" /\ stKey = BizKey
    /\ Len(stRecs) = 2
    /\ stRequests = <<[what |-> "lookup", addr |-> BizKey],
                      [what |-> "patch", addr |-> stRecs[1].id]>>

\* C18: when the PATCH of updateAirtableRecord is answered with a status that
\* is not OK, an error notification is emitted, no success notification is,
\* and no second PATCH is issued.
C18_RefusedPatchNotified ==
    (stOp = "write" /\ stPc = "idle" /\ Issued("patch") # {}
        /\ stAnswer.kind = "response" /\ ~Ok(stAnswer)) =>
        /\ \E i \in 1..Len(stToasts) : stToasts[i] \in {"airtable_msg", "airtable_unknown"}
        /\ \A i \in 1..Len(stToasts) : stToasts[i] # "success"
        /\ Cardinality(Issued("patch")) = 1

\* C19: when the lookup of a business key returns null the write ends without
\* a PATCH, after that one lookup, and the failure is notified.
C19_UnresolvedKeyNotified ==
    (stOp = "write" /\ stPc = "idle" /\ Issued("lookup") # {} /\ stResolved = NoKey) =>
        /\ Issued("patch") = {}
        /\ Cardinality(Issued("lookup")) = 1
        /\ stToasts # <<>>

\* C20: both deletion paths write only a list shorter than the one they read;
\* when none of the requested ids is in the list read, nothing is written and
\* no failure is notified.
C20_WritesOnlyShorterList ==
    /\ \A i \in 1..Len(dlWrites) : Len(dlWrites[i].body) < Len(dlWrites[i].read)
    /\ \A i \in 1..Len(dlToasts) : dlToasts[i] # "delete_failed"

\* a deletion has been run to its end
DeletionEnded == dlPath # "none" /\ dlPc = "idle"

\* C21: a deletion of an attachment id that the deletion before it was asked
\* to remove too, and that is no longer stored, leaves the stored lists as
\* they were and notifies no failure.
C21_SecondDeletionChangesNothing ==
    (/\ DeletionEnded
     /\ Cardinality(dlIds) = 1 /\ dlPrevIds = dlIds
     /\ \A f \in Fields : IdsIn(dlStart[f]) \cap dlIds = {}) =>
        /\ dlStored = dlStart
        /\ \A i \in 1..Len(dlToasts) : dlToasts[i] # "delete_failed"

\* C22: after a deletion, by either path and whatever its re-read returned,
\* every attachment stored under an id that was not requested is still
\* stored in its field, in the same relative order.
C22_OthersKept ==
    DeletionEnded =>
        \A f \in Fields : Without(dlStored[f], dlIds) = Without(dlStart[f], dlIds)

\* the smaller of two numbers
Min(a, b) == IF a <= b THEN a ELSE b

\* C23: the step that ends a carousel deletion closes the viewer, its state
\* reset, when the list left over is empty; otherwise the working set is that
\* list, the index is min(index before, new length - 1) and the file shown is
\* the one at that index.
C23_AfterDeleteClampOrClose ==
    [][(dlPath = "carousel" /\ dlPc = "writing" /\ dlPc' = "idle") =>
          LET left == dlWrites[Len(dlWrites)].body IN
          IF Len(left) = 0
             THEN /\ ~carouselOpen'
                  /\ currentCarouselFiles' = <<>>
                  /\ currentCarouselIndex' = 0
                  /\ currentCarouselField' = "none"
                  /\ currentWarrantyId' = NoKey
             ELSE /\ currentCarouselFiles' = left
                  /\ currentCarouselIndex' = Min(currentCarouselIndex, Len(left) - 1)
                  /\ displayed' = currentCarouselFiles'[currentCarouselIndex' + 1]]_vars

\* the last file of the working set was deleted while it was shown: the index
\* has come down to the new last file
C23_Witness ==
    /\ DeletionEnded /\ dlPath = "carousel" /\ carouselOpen
    /\ Len(currentCarouselFiles) >= 1
    /\ currentCarouselFiles = dlWrites[Len(dlWrites)].body
    /\ Len(dlWrites[Len(dlWrites)].read) = Len(currentCarouselFiles) + 1
    /\ \A i \in 1..Len(currentCarouselFiles) : \A d \in dlIds : currentCarouselFiles[i] < d
    /\ currentCarouselIndex = Len(currentCarouselFiles) - 1
    /\ displayed = currentCarouselFiles[currentCarouselIndex + 1]

\* the moves made since the viewer was opened, the last one first
LastMove(k) == navLog[Len(navLog) - k + 1]

\* C24: after next() the index is (i + 1) mod n and after previous() it is
\* (i - 1 + n) mod n, i the index before and n the length of the working set,
\* and the file shown is the one at the new index; previous() at index 0 of
\* three files gives index 2.
C24_ModularMoves ==
    Len(navLog) >= 1 =>
        LET n == Len(currentCarouselFiles)
            m == LastMove(1)
        IN  /\ n > 0
            /\ m.ev = "next" => currentCarouselIndex = (m.from + 1) % n
            /\ m.ev = "prev" => currentCarouselIndex = (m.from - 1 + n) % n
            /\ (m.ev = "prev" /\ m.from = 0 /\ n = 3) => currentCarouselIndex = 2
            /\ displayed = currentCarouselFiles[currentCarouselIndex + 1]

\* previous() was called at index 0 of three files
C24_Witness ==
    /\ Len(navLog) >= 1
    /\ LastMove(1) = [ev |-> "prev", from |-> 0]
    /\ Len(currentCarouselFiles) = 3
    /\ currentCarouselIndex = 2
    /\ displayed = currentCarouselFiles[3]

\* the last k moves were all ev
AllLast(k, ev) == Len(navLog) >= k /\ \A j \in 1..k : LastMove(j).ev = ev

\* C25: n times next(), and n times previous(), on a working set of n files
\* bring the index back to where it was.
C25_FullTurn ==
    LET n == Len(currentCarouselFiles) IN
    \A ev \in {"next", "prev"} :
        (n > 0 /\ AllLast(n, ev)) => currentCarouselIndex = LastMove(n).from

\* three times next() on three files, started in the middle
C25_Witness ==
    /\ Len(currentCarouselFiles) = 3
    /\ AllLast(3, "next")
    /\ LastMove(3).from = 1
    /\ currentCarouselIndex = 1

\* C26: next() then previous(), and previous() then next(), leave the index
\* where it was.
C26_BackAndForth ==
    (Len(navLog) >= 2 /\ LastMove(1).ev # LastMove(2).ev) =>
        /\ currentCarouselIndex = LastMove(2).from
        /\ displayed = currentCarouselFiles[LastMove(2).from + 1]

\* next() from the last of three files, then previous()
C26_Witness ==
    /\ Len(navLog) >= 2
    /\ Len(currentCarouselFiles) = 3
    /\ LastMove(2) = [ev |-> "next", from |-> 2]
    /\ LastMove(1) = [ev |-> "prev", from |-> 0]
    /\ currentCarouselIndex = 2

\* C27: whatever was opened, moved, deleted and closed, the page-level swipe is
\* disabled exactly while the viewer is open, and the page is never left by a
\* swipe while the viewer is open.
C27_SwipeOffIffOpen ==
    /\ globalSwipeEnabled <=> ~carouselOpen
    /\ leftPage => ~carouselOpen

\* a carousel deletion has ended, the viewer is closed and a swipe has left
\* the page
C27_Witness ==
    /\ DeletionEnded /\ dlPath = "carousel"
    /\ ~carouselOpen /\ globalSwipeEnabled /\ leftPage

\* C28: once closed the viewer has an empty working set, index 0, no field and
\* no key, and scrolling is restored; a step made while it stays closed, with
\* no deletion step in it, leaves the index and the file shown as they were.
C28_ClosedIsInert ==
    [][/\ ~carouselOpen' =>
             /\ currentCarouselFiles' = <<>>
             /\ currentCarouselIndex' = 0
             /\ currentCarouselField' = "none"
             /\ currentWarrantyId' = NoKey
             /\ bodyOverflow' = "auto"
       /\ (~carouselOpen /\ ~carouselOpen' /\ dlPc' = dlPc) =>
             /\ currentCarouselIndex' = currentCarouselIndex
             /\ displayed' = displayed]_vars

\* both tabs were answered their re-read before either PATCH was answered, and
\* both PATCHes were accepted
BothReadFirst ==
    /\ Len(rcLog) = 4
    /\ rcLog[1].ev = "read" /\ rcLog[2].ev = "read"
    /\ rcLog[3].ev = "write" /\ rcLog[3].ok
    /\ rcLog[4].ev = "write" /\ rcLog[4].ok

\* the entries tab t has uploaded itself
NewOf(t) ==
    {rcUploaded[t][i] : i \in {j \in 1..Len(rcUploaded[t]) : rcUploaded[t][j].filename = t}}

\* C29: when two batches on one field both re-read before either writes, the
\* field ends as the list the later writer sent: it has the later writer's new
\* entries, none of the earlier writer's, and both tabs have reported success
\* only.
C29_LastWriterWins ==
    BothReadFirst =>
        LET earlier == rcLog[3].tab
            later == rcLog[4].tab
        IN  /\ rcStored = rcBody[later]
            /\ \A e \in NewOf(earlier) : ~InList(rcStored, e)
            /\ \A t \in Tabs : rcToasts[t] = <<"record_updated">>

\* each tab has uploaded a file under a fresh url; the later one's is stored
C29_Witness ==
    /\ BothReadFirst
    /\ \A t \in Tabs : \E e \in NewOf(t) : e.url > MaxUrl
    /\ \E e \in NewOf(rcLog[4].tab) : InList(rcStored, e)
    /\ \E e \in NewOf(rcLog[3].tab) : ~HasUrl(rcStored, e.url)

\* uploadFileToDropbox has returned after a 409 to the creation of the link
ConflictSettled == lkPc = "done" /\ lkCreate = 409

\* C30 as stated: after a 409 to the creation of the shared link the file gets
\* a url and is appended to the accumulator.
C30_ConflictNeverFailsFile ==
    ConflictSettled => (lkResult # NoUrl /\ Len(lkAcc) = 1)

\* C30: after a 409 to the creation of the shared link the existing links are
\* listed; when that request is answered 2xx with at least one link the file
\* gets the direct form of the first link and is appended to the accumulator,
\* otherwise it gets null and is not appended.
C30_ConflictFallsBackToExistingLink ==
    ConflictSettled =>
        /\ lkListed
        /\ IF lkListOk /\ Len(lkLinks) > 0
              THEN /\ lkResult = ConvertToDirectLink(lkLinks[1])
                   /\ lkAcc = <<[url |-> lkResult, filename |-> 1]>>
                   /\ lkLinks[1] = [host |-> "www.dropbox.com", query |-> "?dl=0"] =>
                         lkResult = [host |-> "dl.dropboxusercontent.com",
                                     query |-> "?raw=1"]
              ELSE lkResult = NoUrl /\ lkAcc = <<>>

\* the existing link www.dropbox.com...?dl=0 was listed and the file appended
\* under its direct form
C30_Witness ==
    /\ ConflictSettled /\ lkListOk
    /\ Len(lkLinks) > 0
    /\ lkLinks[1] = [host |-> "www.dropbox.com", query |-> "?dl=0"]
    /\ lkAcc = <<[url |-> [host |-> "dl.dropboxusercontent.com", query |-> "?raw=1"],
                  filename |-> 1]>>

\* the store holds, in the field of the last write, the list that write sent
LastWriteTaken ==
    LET w == dlWrites[Len(dlWrites)] IN
    w.keyed /\ w.field \in Fields /\ dlStored[w.field] = w.body

\* C31: a carousel deletion whose write the store has not taken has notified a
\* failure and no success.
C31_SuccessOnlyWhenWritten ==
    (DeletionEnded /\ dlPath = "carousel" /\ Len(dlWrites) > 0 /\ ~LastWriteTaken) =>
        /\ \A i \in 1..Len(dlToasts) : dlToasts[i] # "deleted"
        /\ \E i \in 1..Len(dlToasts) : dlToasts[i] = "delete_failed"

\* the notifications that report a failure
FailureToasts == {"upload_failed", "airtable_error", "offline", "auth_failed"}

\* C32: a batch whose write-back ended by the exception of fetchWithRetry
\* (retries exhausted) has emitted a failure notification.
C32_ExhaustedWriteNotified ==
    (upPc = "done" /\ writeOutcome = "patch_threw") =>
        \E i \in 1..Len(toasts) : toasts[i] \in FailureToasts

\* C33: a batch started with no record identifier has no request outstanding,
\* to the blob store or to the record store, at any time.
C33_NoKeyNoRequest ==
    warrantyId = NoKey => (inFlight = {} /\ patches = 0)

\* the places of the log that hold an event of the kind
PlacesOf(kind) == {i \in 1..Len(rrLog) : rrLog[i].ev = kind}

\* the greatest place of a non-empty set of places
LastOf(S) == CHOOSE i \in S : \A j \in S : j <= i

\* the handler and everything it started have come to their end
RereadEnded ==
    rrHandler # "none" /\ rrPc = "done" /\ rrBg = 0 /\ rrTm = 0 /\ rrTimer # "armed"

\* C34: when a handler that wrote has come to its end, a timer has fired after
\* its last write and the last re-read it caused was issued by that timer.
C34_RereadAfterGrace ==
    (RereadEnded /\ PlacesOf("write") # {}) =>
        /\ \E t \in PlacesOf("timer") : t > LastOf(PlacesOf("write"))
        /\ PlacesOf("read") # {}
        /\ rrLog[LastOf(PlacesOf("read"))].by = "timer"

\* C35: a touchend that called next or previous released the finger more than
\* the drag threshold away horizontally, and farther horizontally than
\* vertically, from where the gesture started.
C35_NavigatesOnlyHorizontalRelease ==
    swNav # "none" =>
        /\ Abs(swRel[1]) > DragThreshold
        /\ Abs(swRel[1]) > Abs(swRel[2])

\* the calls of getRecordIdByWarrantyId the chain has made
Lookups == {i \in 1..Len(rsLog) : rsLog[i].ev = "lookup"}

\* C36: one chain of a handler calls getRecordIdByWarrantyId at most once.
C36_ResolvedOncePerChain ==
    Cardinality(Lookups) <= 1

\* the upload requests the file has caused so far
UploadRequests == ulTotal + requests

\* C37 as stated: one file causes at most maxRetries upload requests in total.
C37_AtMostMaxRetriesInTotal ==
    UploadRequests <= maxRetries

\* C37: fetchWithRetry hands uploadFileToDropbox no response of status 429, the
\* 429 branch of uploadFileToDropbox is never taken, each call of
\* uploadFileToDropbox issues at most maxRetries upload requests, and so does
\* the file in total as long as no answer reported an expired token.
C37_RateLimitBranchDead ==
    /\ fwPc = "returned" => ~UploadRateLimited(response)
    /\ ~ulTaken
    /\ ulAttempt = 0
    /\ requests <= maxRetries
    /\ ulExpiries = 0 => UploadRequests <= maxRetries

\* every request of the file was answered 429 and uploadFileToDropbox has
\* returned null from its catch after maxRetries requests
C37_Witness ==
    /\ ulPc = "done" /\ fwPc = "thrown"
    /\ ulExpiries = 0
    /\ AllRateLimited(answers)
    /\ UploadRequests = maxRetries

\* C38: while the viewer is open on a non-empty working set the index names
\* one of its files, whatever openings, moves and carousel deletions came before.
C38_IndexInWorkingSet ==
    (carouselOpen /\ Len(currentCarouselFiles) > 0) =>
        /\ 0 <= currentCarouselIndex
        /\ currentCarouselIndex < Len(currentCarouselFiles)

\* a carousel deletion has ended with the viewer open on the one file that is
\* left of the two the store held
C38_Witness ==
    /\ DeletionEnded /\ dlPath = "carousel" /\ carouselOpen
    /\ Len(dlWrites) > 0
    /\ Len(dlWrites[Len(dlWrites)].read) = 2
    /\ Len(currentCarouselFiles) = 1
    /\ currentCarouselIndex = 0

\* C39: the body of the PATCH of an attachment write names the target field and
\* no other field.
C39_PatchesOnlyTargetField ==
    pfBody # {} => FieldNames(pfBody) = {pfTarget}

\* the upload is being retried after a refresh whose exchange issued a token
RetriedAfterIssue ==
    /\ tkCall = "upload" /\ tkPc = "u_upload"
    /\ tkUploads >= 2 /\ expiries >= 1
    /\ wb # "none"

\* C40: the retry after an expired-token refresh is sent with the token the
\* exchange has just issued, and that token is the cached dropboxAccessToken.
C40_RetryUsesIssuedToken ==
    RetriedAfterIssue =>
        /\ tkToken = issued
        /\ dropboxAccessToken = issued

====
